---- MODULE Spec2Model ----
(***************************************************************************)
(* c2ccombos: paginated fetch (C2CSearch._paginate), the proximity join    *)
(* (C2CSearch.routes_near_waypoints) and the geometry helpers they use.    *)
(*                                                                         *)
(* Python values are held as tagged records [t |-> tag, v |-> payload]:    *)
(*   None -> Null, int/float -> Num(n), str -> Str(s), list/tuple ->       *)
(*   List(seq), dict -> Dict(f) with f a function from keys to values.     *)
(* Planar coordinates produced by float(...) are held in half metres       *)
(* (Fix(n) = 2*n) so that the bbox centroid (a + b) / 2.0 is exact.        *)
(* A distance returned by math.hypot is held by its square, which orders   *)
(* and compares exactly as the distance itself does.                       *)
(***************************************************************************)
EXTENDS Integers, Sequences, FiniteSets, TLC

(* ----------------------------- Python values -------------------------- *)
Null == [t |-> "null", v |-> 0]

Num(n) == [t |-> "num", v |-> n]

Str(s) == [t |-> "str", v |-> s]

List(s) == [t |-> "list", v |-> s]

Dict(f) == [t |-> "dict", v |-> f]

EmptyMap == [k \in {} |-> Null]

\* bool(v)
Truthy(v) ==
    CASE v.t = "null" -> FALSE
      [] v.t = "num"  -> v.v # 0
      [] v.t = "str"  -> v.v # ""
      [] v.t = "list" -> Len(v.v) > 0
      [] v.t = "dict" -> DOMAIN v.v # {}

\* d.get(k, default) on the mapping f of a dict
get(f, k, default) == IF k \in DOMAIN f THEN f[k] ELSE default

\* dict(a); a.update(b)
Update(a, b) ==
    [k \in (DOMAIN a) \cup (DOMAIN b) |-> IF k \in DOMAIN b THEN b[k] ELSE a[k]]

Range(s) == {s[i] : i \in DOMAIN s}

(* ------------------------------ strings ------------------------------- *)
\* The decimal numerals Python's int()/float() accept among the strings used
NumeralRange == -9 .. 99

IsNumeral(s) == \E n \in NumeralRange : ToString(n) = s

NumeralValue(s) == CHOOSE n \in NumeralRange : ToString(n) = s

GeomPointStr == "{\"type\": \"Point\", \"coordinates\": [6, 8]}"

GeomShortStr == "{\"type\": \"Point\", \"coordinates\": [6]}"

GeomNestedStr == "{\"geom\": \"{\\\"type\\\": \\\"Point\\\", \\\"coordinates\\\": [6, 8]}\"}"

GeomBadStr == "{bad"

\* json.loads(s) for the JSON texts used; it raises on any other text
JsonTexts == {GeomPointStr, GeomShortStr, GeomNestedStr, "5"}

json_loads(s) ==
    CASE s = GeomPointStr ->
           Dict([type |-> Str("Point"), coordinates |-> List(<<Num(6), Num(8)>>)])
      [] s = GeomShortStr ->
           Dict([type |-> Str("Point"), coordinates |-> List(<<Num(6)>>)])
      [] s = GeomNestedStr -> Dict([geom |-> Str(GeomPointStr)])
      [] s = "5" -> Num(5)

\* "geom" in s, for s a str
str_contains_geom(s) == s \in {"geom", GeomNestedStr}

\* list(s) for the short strings used as coordinates
str_chars(s) ==
    CASE s = "12" -> <<Str("1"), Str("2")>>
      [] s = "ab" -> <<Str("a"), Str("b")>>
      [] s = "7"  -> <<Str("7")>>
      [] s = ""   -> <<>>

(* ------------------------------- geo.py ------------------------------- *)
\* float(n) of a whole number of metres, in half metres
Fix(n) == 2 * n

Pt(x, y) == [k |-> "pt", x |-> x, y |-> y]

NoPoint == [k |-> "none", x |-> 0, y |-> 0]

Raises == [k |-> "raise", x |-> 0, y |-> 0]

\* float(v) succeeds
CanFloat(v) == v.t = "num" \/ (v.t = "str" /\ IsNumeral(v.v))

\* float(v)
float(v) == IF v.t = "num" THEN Fix(v.v) ELSE Fix(NumeralValue(v.v))

\* math.hypot(dx, dy), held by its square
mercator_point_distance_m(p1, p2) ==
    LET dx == p1.x - p2.x
        dy == p1.y - p2.y
    IN  dx * dx + dy * dy

\* d < max_distance_m
DistLt(d, max_distance_m) ==
    max_distance_m > 0 /\ d < Fix(max_distance_m) * Fix(max_distance_m)

\* d <= max_distance_m, d held by its square, max_distance_m in metres
DistLe(d, max_distance_m) ==
    max_distance_m >= 0 /\ d <= Fix(max_distance_m) * Fix(max_distance_m)

\* the pad is taken off the upper corner as well
expand_bbox_inward(minx, miny, maxx, maxy, pad_m) ==
    <<minx - pad_m, miny - pad_m, maxx - pad_m, maxy - pad_m>>

expand_bbox(minx, miny, maxx, maxy, pad_m) ==
    <<minx - pad_m, miny - pad_m, maxx + pad_m, maxy + pad_m>>

point_in_bbox(x, y, box) ==
    (box[1] <= x /\ x <= box[3]) /\ (box[2] <= y /\ y <= box[4])

\* the descent takes the last element of each array
RECURSIVE drill_last(_)
drill_last(c) ==
    IF c.t # "list" \/ Len(c.v) = 0 THEN NoPoint
    ELSE IF c.v[1].t = "num" /\ Len(c.v) >= 2
         THEN IF CanFloat(c.v[2]) THEN Pt(float(c.v[1]), float(c.v[2])) ELSE Raises
         ELSE drill_last(c.v[Len(c.v)])

RECURSIVE drill(_)
drill(c) ==
    IF c.t # "list" \/ Len(c.v) = 0 THEN NoPoint
    ELSE IF c.v[1].t = "num" /\ Len(c.v) >= 2
         THEN IF CanFloat(c.v[2]) THEN Pt(float(c.v[1]), float(c.v[2])) ELSE Raises
         ELSE drill(c.v[1])

\* x, y = coords[0], coords[1]; return float(x), float(y)   (coords is truthy)
PointCoords(coords) ==
    LET elems == IF coords.t = "list" THEN coords.v
                 ELSE IF coords.t = "str" THEN str_chars(coords.v)
                 ELSE <<>>
    IN  IF Len(elems) < 2 THEN Raises
        ELSE IF CanFloat(elems[1]) /\ CanFloat(elems[2])
             THEN Pt(float(elems[1]), float(elems[2]))
             ELSE Raises

RECURSIVE first_point_xy_from_geometry(_)
first_point_xy_from_geometry(geometry) ==
    CASE geometry.t = "dict" ->
           IF "geom" \in DOMAIN geometry.v /\ geometry.v["geom"].t = "str"
           THEN IF geometry.v["geom"].v \notin JsonTexts THEN NoPoint
                ELSE LET r == first_point_xy_from_geometry(json_loads(geometry.v["geom"].v))
                     IN  IF r.k = "raise" THEN NoPoint ELSE r
           ELSE LET gtype  == get(geometry.v, "type", Null)
                    coords == get(geometry.v, "coordinates", Null)
                IN  IF ~Truthy(coords) THEN NoPoint
                    ELSE IF gtype = Str("Point") THEN PointCoords(coords)
                    ELSE drill(coords)
      [] geometry.t = "list" ->
           IF Str("geom") \in Range(geometry.v) THEN Raises ELSE NoPoint
      [] geometry.t = "str" ->
           IF str_contains_geom(geometry.v) THEN Raises ELSE NoPoint
      [] geometry.t \in {"num", "null"} -> Raises

\* the json.loads calls one call of first_point_xy_from_geometry makes, the
\* calls of its recursion on the parsed value included
RECURSIVE geom_decodes(_)
geom_decodes(geometry) ==
    IF geometry.t = "dict" /\ "geom" \in DOMAIN geometry.v /\ geometry.v["geom"].t = "str"
    THEN IF geometry.v["geom"].v \notin JsonTexts THEN 1
         ELSE 1 + geom_decodes(json_loads(geometry.v["geom"].v))
    ELSE 0

\* the point of the geometry only: a bbox gives no point
doc_point_xy_geometry_only(doc) ==
    LET geom == IF doc.t = "dict" THEN get(doc.v, "geometry", Null) ELSE Null
    IN  IF Truthy(geom) THEN first_point_xy_from_geometry(geom) ELSE NoPoint

doc_point_xy(doc) ==
    LET geom == IF doc.t = "dict" THEN get(doc.v, "geometry", Null) ELSE Null
        pt   == IF Truthy(geom) THEN first_point_xy_from_geometry(geom) ELSE NoPoint
        bbox == IF doc.t = "dict" THEN get(doc.v, "bbox", Null) ELSE Null
    IN  IF pt.k # "none" THEN pt
        ELSE IF bbox.t = "list" /\ Len(bbox.v) = 4
             THEN IF \A i \in 1..4 : CanFloat(bbox.v[i])
                  THEN Pt((float(bbox.v[1]) + float(bbox.v[3])) \div 2,
                          (float(bbox.v[2]) + float(bbox.v[4])) \div 2)
                  ELSE Raises
             ELSE NoPoint

(* ------------------------------ bounds -------------------------------- *)
\* documents held by the remote collection
MaxN == 5

\* page_size values tried: 0..MaxPageSize
MaxPageSize == 2

\* waypoints handed to routes_near_waypoints
MaxWps == 2

\* documents a server that ignores the limit may put in one page
MaxPageLen == MaxPageSize + 1

\* max_items values tried: None, 0..MaxItems
MaxItems == MaxN + 1

\* calls made on one filter
MaxCalls == 3

(* ----------------------------- documents ------------------------------ *)
Point(x, y) == Dict([type |-> Str("Point"), coordinates |-> List(<<Num(x), Num(y)>>)])

BBox(a, b, c, d) == List(<<Num(a), Num(b), Num(c), Num(d)>>)

\* route documents: R1 and R2 lie 5 m from (0,0), R3 on it, R4 has no point,
\* R5 carries a Point with a single coordinate, R6 lies 3 m from (0,0)
R1 == Dict([document_id |-> Num(1), geometry |-> Point(3, 4)])

R2 == Dict([document_id |-> Num(2),
            geometry |-> Dict([type |-> Str("LineString"),
                               coordinates |-> List(<<List(<<Num(5), Num(0)>>),
                                                      List(<<Num(9), Num(9)>>)>>)])])

R3 == Dict([document_id |-> Num(3), bbox |-> BBox(0, 0, 0, 0)])

R4 == Dict([document_id |-> Num(4), geometry |-> Null])

R5 == Dict([document_id |-> Num(5),
            geometry |-> Dict([type |-> Str("Point"), coordinates |-> List(<<Num(1)>>)])])

R6 == Dict([document_id |-> Num(6), geometry |-> Point(0, 3)])

\* orders in which the remote collection may hold its routes
RouteOrders ==
    {<<R1, R2, R3, R4, R5, R6>>, <<R2, R1, R4, R6, R3, R5>>, <<R3, R5, R1, R2, R4, R6>>}

Catalogs == {SubSeq(o, 1, n) : o \in RouteOrders, n \in 0..MaxN}

\* collections whose documents only their identity tells apart
PlainCatalogs == {SubSeq(<<R1, R2, R3, R4, R5, R6>>, 1, n) : n \in 0..MaxN}

\* waypoint documents: W1 at (0,0), W2 at (6,8) through a geom string, W3 only
\* a bbox with centroid (0.5, 0), W4 nothing, W5 a Point with one coordinate
W1 == Dict([document_id |-> Num(11), geometry |-> Point(0, 0)])

W2 == Dict([document_id |-> Num(12),
            geometry |-> Dict([version |-> Num(1), geom |-> Str(GeomPointStr)])])

W3 == Dict([document_id |-> Num(13), bbox |-> BBox(0, 0, 1, 0)])

W4 == Dict([document_id |-> Num(14)])

W5 == Dict([document_id |-> Num(15),
            geometry |-> Dict([type |-> Str("Point"), coordinates |-> List(<<Num(1)>>)])])

WaypointOrders == {<<W1, W2, W3, W4, W5>>, <<W5, W4, W3, W2, W1>>}

\* the elements of order at the positions idx, in the order of order
Pick(order, idx) ==
    LET nth(k) == CHOOSE i \in idx : Cardinality({j \in idx : j < i}) = k - 1
    IN  [k \in 1..Cardinality(idx) |-> order[nth(k)]]

\* the waypoint lists tried: up to MaxWps waypoints, in either order
WaypointLists ==
    {Pick(o, idx) : o \in WaypointOrders,
                    idx \in {i \in SUBSET (1..5) : Cardinality(i) <= MaxWps}}

\* max_distance_m values tried, in metres
Thresholds == {-5, 0, 5, 2000}

(* ------------------------------ client.py ----------------------------- *)
\* C2CClient.default_params of the client C2CSearch() builds
default_params == EmptyMap

\* C2CClient.request: the query the session is asked to send
client_request(path, params) ==
    LET kept == {k \in DOMAIN params : params[k] # Null}
    IN  [endpoint |-> path,
         params   |-> Update(default_params, [k \in kept |-> params[k]])]

(* ------------------------------ search.py ----------------------------- *)
\* int(v)
CanInt(v) == v.t = "num" \/ (v.t = "str" /\ IsNumeral(v.v))

int(v) == IF v.t = "num" THEN v.v ELSE NumeralValue(v.v)

\* offset = int(params.get("offset", 0) or 0)
paginate_offset(params) ==
    LET given == get(params, "offset", Num(0))
        value == IF Truthy(given) THEN given ELSE Num(0)
    IN  IF CanInt(value) THEN [raised |-> FALSE, offset |-> int(value)]
        ELSE [raised |-> TRUE, offset |-> 0]

\* the cap is not tested: every document of the page is appended
append_docs_uncapped(items, seen, docs, i, max_items) ==
    [returned |-> FALSE, items |-> items \o SubSeq(docs, i, Len(docs)),
     seen |-> seen + Len(docs) - i + 1]

\* the cap is tested with > in place of >=
RECURSIVE append_docs_gt(_, _, _, _, _)
append_docs_gt(items, seen, docs, i, max_items) ==
    IF i > Len(docs) THEN [returned |-> FALSE, items |-> items, seen |-> seen]
    ELSE IF max_items # Null /\ seen + 1 > max_items.v
         THEN [returned |-> TRUE, items |-> Append(items, docs[i]), seen |-> seen + 1]
         ELSE append_docs_gt(Append(items, docs[i]), seen + 1, docs, i + 1, max_items)

\* for d in docs: items.append(d); seen += 1; if max_items is not None and
\* seen >= max_items: return items
RECURSIVE append_docs(_, _, _, _, _)
append_docs(items, seen, docs, i, max_items) ==
    IF i > Len(docs) THEN [returned |-> FALSE, items |-> items, seen |-> seen]
    ELSE IF max_items # Null /\ seen + 1 >= max_items.v
         THEN [returned |-> TRUE, items |-> Append(items, docs[i]), seen |-> seen + 1]
         ELSE append_docs(Append(items, docs[i]), seen + 1, docs, i + 1, max_items)

\* a limit of the query survives: only a missing limit is set
page_params_keep_limit(params, page_size, offset) ==
    Update([limit |-> Num(page_size)], Update(params, [offset |-> Num(offset)]))

\* page_params = dict(params); page_params.update({"limit": ..., "offset": ...})
page_params(params, page_size, offset) ==
    Update(params, [limit |-> Num(page_size), offset |-> Num(offset)])

\* a request that ends in an error raises, as does a body that is no JSON
\* object: res.get(...) is then an AttributeError
page_documents_swallow(res) ==
    LET given == IF res.status = "ok" /\ res.body.t = "dict"
                 THEN get(res.body.v, "documents", List(<<>>)) ELSE Null
        docs  == IF Truthy(given) THEN given ELSE List(<<>>)
    IN  [raised |-> FALSE, docs |-> IF docs.t = "list" THEN docs.v ELSE <<>>]

\* res = self.client.list_routes(**page_params);
\* docs = list(res.get("documents", []) or [])
page_documents(res) ==
    LET given == IF res.body.t = "dict"
                 THEN get(res.body.v, "documents", List(<<>>)) ELSE Null
        docs  == IF Truthy(given) THEN given ELSE List(<<>>)
    IN  IF res.status # "ok" \/ res.body.t # "dict" \/ docs.t # "list"
        THEN [raised |-> TRUE, docs |-> <<>>]
        ELSE [raised |-> FALSE, docs |-> docs.v]

\* a full page ends the fetch as a short one does
paginate_page_stop_on_full(items, offset, seen, page_size, max_items, res) ==
    LET stay == [ctl |-> "raise", items |-> items, offset |-> offset, seen |-> seen]
        page == page_documents(res)
        r    == append_docs(items, seen, page.docs, 1, max_items)
    IN  IF page.raised THEN stay
        ELSE IF Len(page.docs) = 0 THEN [stay EXCEPT !.ctl = "return"]
        ELSE IF r.returned
        THEN [ctl |-> "return", items |-> r.items, offset |-> offset, seen |-> r.seen]
        ELSE [ctl    |-> IF Len(page.docs) <= page_size THEN "return" ELSE "loop",
              items  |-> r.items,
              offset |-> offset + Len(page.docs),
              seen   |-> r.seen]

\* One pass of the body of the while loop of _paginate once the response res
\* arrived: ctl says whether the call raises, returns items or loops again.
paginate_page(items, offset, seen, page_size, max_items, res) ==
    LET stay == [ctl |-> "raise", items |-> items, offset |-> offset, seen |-> seen]
        page == page_documents(res)
        r    == append_docs(items, seen, page.docs, 1, max_items)
    IN  IF page.raised THEN stay
        ELSE IF Len(page.docs) = 0 THEN [stay EXCEPT !.ctl = "return"]
        ELSE IF r.returned
        THEN [ctl |-> "return", items |-> r.items, offset |-> offset, seen |-> r.seen]
        ELSE [ctl    |-> IF Len(page.docs) < page_size THEN "return" ELSE "loop",
              items  |-> r.items,
              offset |-> offset + Len(page.docs),
              seen   |-> r.seen]

(* ------------------------------ params.py ----------------------------- *)
\* further Python values of the filters: True/False, and a one-shot iterator
\* (an Iterable[str] that is not a collection) with the elements it still holds
Bool(b) == [t |-> "bool", v |-> b]

Iter(s) == [t |-> "iter", v |-> s]

\* str(v) for None, bool, int and str
py_str(v) ==
    CASE v.t = "null" -> "None"
      [] v.t = "bool" -> IF v.v THEN "True" ELSE "False"
      [] v.t = "num"  -> ToString(v.v)
      [] v.t = "str"  -> v.v

\* ",".join([str(s) for s in seq])
RECURSIVE comma_join(_)
comma_join(seq) ==
    IF Len(seq) = 0 THEN ""
    ELSE IF Len(seq) = 1 THEN py_str(seq[1])
    ELSE py_str(seq[1]) \o "," \o comma_join(Tail(seq))

\* _join_list(v): value is what it returns, left is v after the call (an
\* iterator has been run to its end); a number or a bool is not iterable
_join_list(v) ==
    CASE v.t = "null" -> [raised |-> FALSE, value |-> Null, left |-> v]
      [] v.t = "str"  -> [raised |-> FALSE, value |-> v, left |-> v]
      [] v.t = "list" -> [raised |-> FALSE, value |-> Str(comma_join(v.v)), left |-> v]
      [] v.t = "iter" -> [raised |-> FALSE, value |-> Str(comma_join(v.v)), left |-> Iter(<<>>)]
      [] v.t \in {"num", "bool"} -> [raised |-> TRUE, value |-> Null, left |-> v]

\* _bbox_to_param(bbox), for bbox a tuple or None
_bbox_to_param(bbox) ==
    IF ~Truthy(bbox) THEN [raised |-> FALSE, value |-> Null]
    ELSE IF Len(bbox.v) < 4 THEN [raised |-> TRUE, value |-> Null]
    ELSE [raised |-> FALSE,
          value  |-> Str(py_str(bbox.v[1]) \o "," \o py_str(bbox.v[2]) \o ","
                         \o py_str(bbox.v[3]) \o "," \o py_str(bbox.v[4]))]

\* the separator is left out when a side is open
_format_range_no_open_side(value) ==
    CASE value.t = "null" -> [raised |-> FALSE, value |-> Null]
      [] value.t = "str"  -> [raised |-> FALSE, value |-> value]
      [] value.t = "list" ->
           IF Len(value.v) # 2 THEN [raised |-> TRUE, value |-> Null]
           ELSE [raised |-> FALSE,
                 value  |-> Str(IF value.v[1] = Null \/ value.v[2] = Null
                                THEN (IF value.v[1] = Null THEN "" ELSE py_str(value.v[1]))
                                     \o (IF value.v[2] = Null THEN "" ELSE py_str(value.v[2]))
                                ELSE py_str(value.v[1]) \o "," \o py_str(value.v[2]))]
      [] value.t \in {"num", "bool"} -> [raised |-> TRUE, value |-> Null]

\* _format_range(value): lo, hi = value unpacks exactly two elements
_format_range(value) ==
    CASE value.t = "null" -> [raised |-> FALSE, value |-> Null]
      [] value.t = "str"  -> [raised |-> FALSE, value |-> value]
      [] value.t = "list" ->
           IF Len(value.v) # 2 THEN [raised |-> TRUE, value |-> Null]
           ELSE [raised |-> FALSE,
                 value  |-> Str((IF value.v[1] = Null THEN "" ELSE py_str(value.v[1]))
                                \o "," \o
                                (IF value.v[2] = Null THEN "" ELSE py_str(value.v[2])))]
      [] value.t \in {"num", "bool"} -> [raised |-> TRUE, value |-> Null]

\* one named field of a filter: the attribute, its wire key, and how
\* to_query_params writes it: "raw" (as it is), "bbox" (_bbox_to_param), "join"
\* (_join_list), "int" (int(...)), "range" (_format_range), "lift"
\* (str(...).lower() of a bool)
Field(attr, key, how) == [attr |-> attr, key |-> key, how |-> how]

\* BaseSearchParams.to_query_params, in the order of its statements
BaseFields ==
    << Field("q", "q", "raw"), Field("lang", "lang", "raw"), Field("bbox", "bbox", "bbox"),
       Field("fields", "fields", "join"), Field("orderby", "orderby", "raw"),
       Field("order", "order", "raw"), Field("limit", "limit", "int"),
       Field("offset", "offset", "int") >>

\* RouteSearchParams.to_query_params after super().to_query_params()
RouteFields ==
    << Field("act", "act", "join"), Field("waypoints", "w", "join"), Field("users", "u", "join"),
       Field("elevation", "ele", "range"), Field("elevation_min", "rmina", "int"),
       Field("elevation_max", "rmaxa", "int"), Field("height_diff_up", "hdif", "range"),
       Field("height_diff_down", "ddif", "range"), Field("route_length", "rlen", "range"),
       Field("difficulties_height", "ralt", "range"),
       Field("height_diff_access", "rappr", "range"),
       Field("height_diff_difficulties", "dhei", "range"),
       Field("route_types", "rtyp", "join"), Field("orientations", "fac", "join"),
       Field("durations", "time", "range"), Field("glacier_gear", "glac", "raw"),
       Field("configuration", "conf", "join"),
       Field("ski_rating", "trat", "range"), Field("ski_exposition", "sexpo", "range"),
       Field("labande_ski_rating", "srat", "range"),
       Field("labande_global_rating", "lrat", "range"),
       Field("global_rating", "grat", "range"), Field("engagement_rating", "erat", "range"),
       Field("risk_rating", "orrat", "range"), Field("equipment_rating", "prat", "range"),
       Field("ice_rating", "irat", "range"), Field("mixed_rating", "mrat", "range"),
       Field("exposition_rock_rating", "rexpo", "range"),
       Field("rock_free_rating", "frat", "range"),
       Field("rock_required_rating", "rrat", "range"), Field("aid_rating", "arat", "range"),
       Field("via_ferrata_rating", "krat", "range"), Field("hiking_rating", "hrat", "range"),
       Field("hiking_mtb_exposition", "hexpo", "range"),
       Field("snowshoe_rating", "wrat", "range"), Field("mtb_up_rating", "mbur", "range"),
       Field("mtb_down_rating", "mbdr", "range"),
       Field("mtb_length_asphalt", "mbroad", "range"),
       Field("mtb_length_trail", "mbtrack", "range"),
       Field("mtb_height_diff_portages", "mbpush", "range"),
       Field("rock_types", "rock", "join"), Field("climbing_outdoor_type", "crtyp", "join"),
       Field("slackline_type", "sltyp", "raw") >>

\* WaypointSearchParams.to_query_params after super().to_query_params()
WaypointFields ==
    << Field("act", "act", "join"), Field("wtyp", "wtyp", "join"),
       Field("elevation", "walt", "range"), Field("prominence", "prom", "range"),
       Field("height_min", "tminh", "range"), Field("height_max", "tmaxh", "range"),
       Field("height_median", "tmedh", "range"), Field("routes_quantity", "rqua", "range"),
       Field("length", "len", "range"), Field("capacity", "hucap", "range"),
       Field("capacity_staffed", "hscap", "range"),
       Field("rock_types", "wrock", "join"), Field("orientations", "wfac", "join"),
       Field("best_periods", "period", "join"), Field("lift_access", "plift", "lift"),
       Field("custodianship", "hsta", "raw"), Field("climbing_styles", "tcsty", "join"),
       Field("access_time", "tappt", "range"), Field("climbing_rating_max", "tmaxr", "range"),
       Field("climbing_rating_min", "tminr", "range"),
       Field("climbing_rating_median", "tmedr", "range"),
       Field("paragliding_rating", "pgrat", "range"),
       Field("exposition_rating", "pglexp", "range"),
       Field("equipment_ratings", "anchq", "range"),
       Field("climbing_outdoor_types", "ctout", "join"),
       Field("climbing_indoor_types", "ctin", "join"),
       Field("weather_station_types", "whtyp", "join"),
       Field("public_transportation_types", "tpty", "join"),
       Field("public_transportation_rating", "tp", "raw"),
       Field("snow_clearance_rating", "psnow", "raw"), Field("product_types", "ftyp", "join") >>

\* fields the dataclass WaypointSearchParams declares (Optional[str]) that its
\* to_query_params has no statement for
WaypointDeclaredOnly == {"children_proof", "rain_proof"}

Kinds == {"base", "route", "waypoint"}

\* the statements for the fields of the subclass
KindFields(kind) ==
    CASE kind = "base" -> <<>>
      [] kind = "route" -> RouteFields
      [] kind = "waypoint" -> WaypointFields

\* the named fields of a filter of the kind
Attrs(kind) ==
    {BaseFields[i].attr : i \in DOMAIN BaseFields}
        \cup {KindFields(kind)[i].attr : i \in DOMAIN KindFields(kind)}
        \cup (IF kind = "waypoint" THEN WaypointDeclaredOnly ELSE {})

\* params[key] = value
SetKey(params, key, value) == Update(params, [k \in {key} |-> value])

\* one statement of to_query_params for the field f; acc holds the params so
\* far, the fields (an iterator may have been used up) and whether it raised
write_field(acc, f) ==
    LET v == acc.fields[f.attr]
        put(value) == [acc EXCEPT !.params = SetKey(@, f.key, value)]
        fail == [acc EXCEPT !.raised = TRUE]
    IN  IF acc.raised THEN acc
        ELSE CASE f.how = "raw" -> IF v # Null THEN put(v) ELSE acc
               [] f.how = "bbox" ->
                    IF v = Null THEN acc
                    ELSE IF _bbox_to_param(v).raised THEN fail
                    ELSE put(_bbox_to_param(v).value)
               [] f.how = "join" ->
                    IF v = Null THEN acc
                    ELSE IF _join_list(v).raised THEN fail
                    ELSE [acc EXCEPT !.params = SetKey(@, f.key, _join_list(v).value),
                                     !.fields[f.attr] = _join_list(v).left]
               [] f.how = "int" ->
                    IF v = Null THEN acc
                    ELSE IF CanInt(v) THEN put(Num(int(v))) ELSE fail
               [] f.how = "range" ->
                    IF _format_range(v).raised THEN fail
                    ELSE IF _format_range(v).value # Null THEN put(_format_range(v).value)
                    ELSE acc
               [] f.how = "lift" ->
                    IF v = Null THEN acc
                    ELSE IF v.t = "bool" THEN put(Str(IF v.v THEN "true" ELSE "false"))
                    ELSE put(v)

RECURSIVE write_fields(_, _, _)
write_fields(acc, table, i) ==
    IF i > Len(table) \/ acc.raised THEN acc
    ELSE write_fields(write_field(acc, table[i]), table, i + 1)

\* for k, v in self.extras.items(): if v is not None: ...   (a key the named
\* fields of the subclass write afterwards is the subclass's)
write_extras(acc, extras) ==
    IF acc.raised THEN acc
    ELSE [acc EXCEPT !.params =
            [k \in (DOMAIN acc.params) \cup {e \in DOMAIN extras : extras[e] # Null} |->
                IF k \in DOMAIN extras /\ extras[k] # Null
                THEN (IF extras[k].t = "list" THEN _join_list(extras[k]).value ELSE extras[k])
                ELSE acc.params[k]]]

\* to_query_params of a filter [kind, fields, extras]: the fields of the base
\* class, the extras, then the fields of the subclass
to_query_params(flt) ==
    write_fields(
        write_extras(
            write_fields([raised |-> FALSE, params |-> EmptyMap, fields |-> flt.fields],
                         BaseFields, 1),
            flt.extras),
        KindFields(flt.kind), 1)

\* BaseSearchParams.set(key, value)
filter_set_extra(flt, key, value) ==
    [flt EXCEPT !.extras = SetKey(@, key, value)]

\* a filter of the kind with every named field None
Blank(kind) == [a \in Attrs(kind) |-> Null]

NewFilter(kind, fields, extras) == [kind |-> kind, fields |-> fields, extras |-> extras]

\* a filter object handed where a mapping may be handed as well
FilterObject(flt) == [t |-> "filter", v |-> flt]

(* ------------------------- search.py, the bbox calls ------------------- *)
\* repr of a float held in half metres, as an f-string prints it
FloatStr(h) ==
    LET a == IF h < 0 THEN -h ELSE h
    IN  (IF h < 0 THEN "-" ELSE "") \o ToString(a \div 2)
            \o (IF a % 2 = 0 THEN ".0" ELSE ".5")

\* names a keyword argument dict may not repeat in the call it is splatted in
RoutesInBboxAllNames == {"self", "bbox", "page_size", "max_items", "params"}

PaginateNames == {"self", "endpoint", "page_size", "max_items"}

\* a bbox of the filter or of kwargs survives: the box is set only when missing
routes_in_bbox_all_keep_bbox(box, wire, kwargs) ==
    LET p == Update([bbox |-> Str(FloatStr(box[1]) \o "," \o FloatStr(box[2]) \o ","
                                  \o FloatStr(box[3]) \o "," \o FloatStr(box[4]))],
                    Update(wire.params, kwargs))
    IN  IF wire.raised
           \/ (DOMAIN kwargs) \cap RoutesInBboxAllNames # {}
           \/ (DOMAIN p) \cap PaginateNames # {}
        THEN [raised |-> TRUE, p |-> EmptyMap]
        ELSE [raised |-> FALSE, p |-> p]

\* routes_in_bbox_all(bbox, params=params, **kwargs) up to the call of
\* _paginate: p is the wire mapping of a filter object (or {}), then kwargs,
\* then the bbox
routes_in_bbox_all_with(box, wire, kwargs) ==
    LET p == Update(Update(wire.params, kwargs),
                    [bbox |-> Str(FloatStr(box[1]) \o "," \o FloatStr(box[2]) \o ","
                                  \o FloatStr(box[3]) \o "," \o FloatStr(box[4]))])
    IN  IF wire.raised
           \/ (DOMAIN kwargs) \cap RoutesInBboxAllNames # {}
           \/ (DOMAIN p) \cap PaginateNames # {}
        THEN [raised |-> TRUE, p |-> EmptyMap]
        ELSE [raised |-> FALSE, p |-> p]

\* p = params.to_query_params() if isinstance(params, BaseSearchParams) else {}
routes_in_bbox_all(box, params, kwargs) ==
    routes_in_bbox_all_with(box,
        IF params.t = "filter" THEN to_query_params(params.v)
        ELSE [raised |-> FALSE, params |-> EmptyMap],
        kwargs)

Min(s) == CHOOSE m \in Range(s) : \A e \in Range(s) : m <= e

Max(s) == CHOOSE m \in Range(s) : \A e \in Range(s) : m >= e

\* the first loop of routes_near_waypoints: the coordinates of the extent
RECURSIVE aggregate_extent(_, _, _)
aggregate_extent(wps, i, acc) ==
    IF acc.raised \/ i > Len(wps) THEN acc
    ELSE LET wp   == wps[i]
             pt   == doc_point_xy(wp)
             bbox == IF wp.t = "dict" THEN get(wp.v, "bbox", Null) ELSE Null
         IN  IF pt.k = "raise" \/ (pt.k = "none" /\ wp.t # "dict")
             THEN [acc EXCEPT !.raised = TRUE]
             ELSE IF pt.k = "pt"
             THEN aggregate_extent(wps, i + 1,
                      [acc EXCEPT !.xs = Append(@, pt.x), !.ys = Append(@, pt.y)])
             ELSE IF bbox.t = "list" /\ Len(bbox.v) = 4
             THEN IF \A j \in 1..4 : CanFloat(bbox.v[j])
                  THEN aggregate_extent(wps, i + 1,
                           [acc EXCEPT !.xs = @ \o <<float(bbox.v[1]), float(bbox.v[3])>>,
                                       !.ys = @ \o <<float(bbox.v[2]), float(bbox.v[4])>>])
                  ELSE [acc EXCEPT !.raised = TRUE]
             ELSE aggregate_extent(wps, i + 1, acc)

NearbyMatch(route, waypoint, distance_m) ==
    [route |-> route, waypoint |-> waypoint, distance_m |-> distance_m]

\* for wp in wps: ... of the join, for one route with point rpt
RECURSIVE join_waypoints(_, _, _, _, _, _)
join_waypoints(route, rpt, wps, j, max_distance_m, acc) ==
    IF acc.raised \/ j > Len(wps) THEN acc
    ELSE LET wpt == doc_point_xy(wps[j])
         IN  IF wpt.k = "raise" THEN [acc EXCEPT !.raised = TRUE]
             ELSE IF wpt.k = "none"
             THEN join_waypoints(route, rpt, wps, j + 1, max_distance_m, acc)
             ELSE LET d == mercator_point_distance_m(rpt, wpt)
                  IN  join_waypoints(route, rpt, wps, j + 1, max_distance_m,
                          IF DistLe(d, max_distance_m)
                          THEN [acc EXCEPT !.matches = Append(@, NearbyMatch(route, wps[j], d))]
                          ELSE acc)

\* for route in routes: ... of the join
RECURSIVE join_routes(_, _, _, _, _)
join_routes(routes, i, wps, max_distance_m, acc) ==
    IF acc.raised \/ i > Len(routes) THEN acc
    ELSE LET rpt == doc_point_xy(routes[i])
         IN  IF rpt.k = "raise" THEN [acc EXCEPT !.raised = TRUE]
             ELSE IF rpt.k = "none"
             THEN join_routes(routes, i + 1, wps, max_distance_m, acc)
             ELSE join_routes(routes, i + 1, wps, max_distance_m,
                      join_waypoints(routes[i], rpt, wps, 1, max_distance_m, acc))

\* an unstable sort: an element goes in front of the elements of equal key
sort_insert_unstable(sorted, m) ==
    LET n == Cardinality({i \in 1..Len(sorted) : sorted[i].distance_m < m.distance_m})
    IN  SubSeq(sorted, 1, n) \o <<m>> \o SubSeq(sorted, n + 1, Len(sorted))

\* list.sort(key=...) is stable: an element goes behind every element whose
\* key is not larger
sort_insert(sorted, m) ==
    LET n == Cardinality({i \in 1..Len(sorted) : sorted[i].distance_m <= m.distance_m})
    IN  SubSeq(sorted, 1, n) \o <<m>> \o SubSeq(sorted, n + 1, Len(sorted))

RECURSIVE sort_by_distance(_, _, _)
sort_by_distance(matches, i, sorted) ==
    IF i > Len(matches) THEN sorted
    ELSE sort_by_distance(matches, i + 1, sort_insert(sorted, matches[i]))

\* the matches are returned as the join found them
near_join_unsorted(routes, wps, max_distance_m) ==
    LET joined == join_routes(routes, 1, wps, max_distance_m,
                              [raised |-> FALSE, matches |-> <<>>])
    IN  [raised  |-> joined.raised,
         matches |-> IF joined.raised THEN <<>> ELSE joined.matches]

\* routes_near_waypoints from the return of routes_in_bbox_all to its own return
near_join(routes, wps, max_distance_m) ==
    LET joined == join_routes(routes, 1, wps, max_distance_m,
                              [raised |-> FALSE, matches |-> <<>>])
    IN  [raised  |-> joined.raised,
         matches |-> IF joined.raised THEN <<>>
                     ELSE sort_by_distance(joined.matches, 1, <<>>)]

\* what routes_near_waypoints hands on when it stops before any request
near_stop(ctl, box) == [ctl |-> ctl, bbox |-> box, p |-> EmptyMap, offset |-> 0]

\* _paginate entered through routes_in_bbox_all: the call may raise on its
\* keyword arguments, and int(...) of the offset may raise
near_fetch_from(box, call, o) ==
    IF call.raised \/ o.raised THEN near_stop("raise", box)
    ELSE [ctl |-> "fetch", bbox |-> box, p |-> call.p, offset |-> o.offset]

near_fetch_call(box, call) == near_fetch_from(box, call, paginate_offset(call.p))

\* routes = self.routes_in_bbox_all(bbox, ..., params=rparams_obj, **route_params)
near_fetch(box, params, kwargs) ==
    near_fetch_call(box, routes_in_bbox_all(box, params, kwargs))

\* the pad is the floor of 1000 m whatever the threshold
near_pad_floor_only(max_distance_m) == Fix(1000)

\* pad = max(max_distance_m, 1000.0)
near_pad(max_distance_m) ==
    IF Fix(max_distance_m) > Fix(1000) THEN Fix(max_distance_m) ELSE Fix(1000)

\* neither emptiness test is made: without coordinates the box is the padded origin
near_after_extent_no_guard(wps, ext, max_distance_m, route_params) ==
    LET xs == IF Len(ext.xs) = 0 THEN <<0>> ELSE ext.xs
        ys == IF Len(ext.ys) = 0 THEN <<0>> ELSE ext.ys
    IN  IF ext.raised THEN near_stop("raise", <<>>)
        ELSE near_fetch(expand_bbox(Min(xs), Min(ys), Max(xs), Max(ys),
                                    near_pad(max_distance_m)),
                        IF route_params.t = "filter" THEN route_params ELSE Null,
                        IF route_params.t = "dict" THEN route_params.v ELSE EmptyMap)

\* routes_near_waypoints once the first loop left the coordinates ext: the two
\* emptiness tests, the padded box and the call that fetches the routes
near_after_extent(wps, ext, max_distance_m, route_params) ==
    IF Len(wps) = 0 THEN near_stop("return", <<>>)
    ELSE IF ext.raised THEN near_stop("raise", <<>>)
    ELSE IF Len(ext.xs) = 0 \/ Len(ext.ys) = 0 THEN near_stop("return", <<>>)
    ELSE near_fetch(expand_bbox(Min(ext.xs), Min(ext.ys), Max(ext.xs), Max(ext.ys),
                                near_pad(max_distance_m)),
                    IF route_params.t = "filter" THEN route_params ELSE Null,
                    IF route_params.t = "dict" THEN route_params.v ELSE EmptyMap)

\* routes_near_waypoints up to the loop of the _paginate it calls: ctl says
\* whether it returns [], raises, or goes on to fetch with **p from offset
near_prologue(wps, max_distance_m, route_params) ==
    near_after_extent(wps,
                      aggregate_extent(wps, 1, [raised |-> FALSE, xs |-> <<>>, ys |-> <<>>]),
                      max_distance_m, route_params)

(* ------------------------------- state -------------------------------- *)
\* Every call of _paginate or routes_near_waypoints has its own locals; the
\* variables below are functions of the call.  A slot with pc = "none" holds
\* no call.
CallIds == {1, 2}

VARIABLES
    catalog,    \* the remote collection, in server order
    mode,       \* "exact": the server answers (offset, limit) with that slice;
                \* "any": it may fail, send odd bodies or ignore the limit
    args,       \* the arguments of the call
    pc,         \* "start", "loop" (top of while True), "wait" (request in
                \* flight), "done" (returned), "raised", "none"
    qparams,    \* _paginate: **params
    items,      \* _paginate: items
    offset,     \* _paginate: offset
    seen,       \* _paginate: seen
    bbox,       \* routes_near_waypoints: the padded box, <<>> before it is set
    requests,   \* the requests the session was asked to send, in order
    responses,  \* the responses it delivered, in order
    result,     \* the value returned: documents or matches
    filter,     \* a search filter: its class, named fields and extras
    calls,      \* the calls made on the filter and what each returned, in order
    probe       \* one call of a geometry helper: the function, its argument,
                \* "call" / "done" / "raised", and what it returned

vars == <<catalog, mode, args, pc, qparams, items, offset, seen, bbox,
          requests, responses, result, filter, calls, probe>>

PageSizes == 0 .. MaxPageSize

MaxItemsValues == {Null} \cup {Num(m) : m \in 0 .. MaxItems}

\* endpoint and **params handed to _paginate
Queries ==
    { [endpoint |-> "routes",    params |-> EmptyMap],
      [endpoint |-> "waypoints", params |-> [offset |-> Num(1)]],
      [endpoint |-> "routes",    params |-> [offset |-> Str("2"), limit |-> Num(7)]],
      [endpoint |-> "outings",   params |-> [offset |-> Null, q |-> Str("x")]],
      [endpoint |-> "routes",    params |-> [offset |-> Str("ab")]] }

\* route_params handed to routes_near_waypoints
\* none, a mapping, a mapping with a bbox of its own, and a route filter with
\* a bbox of its own
RouteParams ==
    { Null,
      Dict([act |-> Str("mountain_climbing"), offset |-> Num(1)]),
      Dict([bbox |-> Str("0,0,1,1")]),
      FilterObject(NewFilter("route",
          [Blank("route") EXCEPT !["act"] = List(<<Str("a"), Str("b")>>),
                                 !["bbox"] = List(<<Num(0), Num(1), Num(2), Num(3)>>)],
          [zz |-> Str("v")])) }

FetchArgs ==
    { [op |-> "fetch_all", endpoint |-> q.endpoint, page_size |-> ps, max_items |-> mi,
       params |-> q.params, waypoints |-> <<>>, max_distance_m |-> 0,
       route_params |-> Null] :
      q \in Queries, ps \in PageSizes, mi \in MaxItemsValues }

NearArgs ==
    [op : {"near"}, endpoint : {"routes"}, page_size : {MaxPageSize},
     max_items : {Null, Num(2)}, params : {EmptyMap},
     waypoints : WaypointLists, max_distance_m : Thresholds,
     route_params : RouteParams]

NoArgs ==
    [op |-> "none", endpoint |-> "routes", page_size |-> 0, max_items |-> Null,
     params |-> EmptyMap, waypoints |-> <<>>, max_distance_m |-> 0,
     route_params |-> Null]

\* the locals of the calls before any of them has run
InitLocals ==
    /\ qparams = [c \in CallIds |-> EmptyMap]
    /\ items = [c \in CallIds |-> <<>>]
    /\ offset = [c \in CallIds |-> 0]
    /\ seen = [c \in CallIds |-> 0]
    /\ bbox = [c \in CallIds |-> <<>>]
    /\ requests = [c \in CallIds |-> <<>>]
    /\ responses = [c \in CallIds |-> <<>>]
    /\ result = [c \in CallIds |-> <<>>]

\* one call, in slot 1
OneCall(a) ==
    /\ args = [c \in CallIds |-> IF c = 1 THEN a ELSE NoArgs]
    /\ pc = [c \in CallIds |-> IF c = 1 THEN "start" ELSE "none"]

\* no filter is in use
NoFilter ==
    /\ filter = [kind |-> "none", fields |-> EmptyMap, extras |-> EmptyMap]
    /\ calls = <<>>

\* no geometry helper is being called
NoProbe == probe = [fn |-> "none", arg |-> Null, pc |-> "none", out |-> NoPoint]

Init ==
    /\ mode \in {"exact", "any"}
    /\ \/ catalog \in PlainCatalogs /\ \E a \in FetchArgs : OneCall(a)
       \/ catalog \in Catalogs /\ \E a \in NearArgs : OneCall(a)
    /\ InitLocals
    /\ NoFilter
    /\ NoProbe

(* ------------------------------ the server ---------------------------- *)
Ok(body) == [status |-> "ok", body |-> body]

Failure == [status |-> "error", body |-> Null]

\* documents o .. o+n-1 of the collection (0-based), as far as it reaches
Slice(o, n) ==
    LET last == IF o + n < Len(catalog) THEN o + n ELSE Len(catalog)
    IN  SubSeq(catalog, o + 1, last)

Listing(docs) == Dict([documents |-> List(docs), total |-> Num(Len(catalog))])

\* what the session may deliver for the request req
ServerAnswers(req) ==
    LET o == req.params["offset"].v
        l == req.params["limit"].v
    IN  IF mode = "exact" THEN {Ok(Listing(Slice(o, l)))}
        ELSE {Failure, Ok(Dict([total |-> Num(0)])), Ok(Dict([documents |-> Null])),
              Ok(List(<<>>))}
             \cup {Ok(Listing(Slice(o, n))) : n \in 0 .. MaxPageLen}

(* ------------------------------ actions ------------------------------- *)
\* the call returns value / raises
Return(c, value) ==
    /\ pc' = [pc EXCEPT ![c] = "done"]
    /\ result' = [result EXCEPT ![c] = value]

Raise(c) ==
    /\ pc' = [pc EXCEPT ![c] = "raised"]
    /\ UNCHANGED result

\* _paginate(endpoint, page_size, max_items, **params) up to while True
paginate_enter(c) ==
    /\ pc[c] = "start"
    /\ args[c].op = "fetch_all"
    /\ LET o == paginate_offset(args[c].params)
       IN  /\ qparams' = [qparams EXCEPT ![c] = args[c].params]
           /\ offset' = [offset EXCEPT ![c] = o.offset]
           /\ IF o.raised THEN Raise(c)
              ELSE pc' = [pc EXCEPT ![c] = "loop"] /\ UNCHANGED result
    /\ UNCHANGED <<catalog, mode, args, items, seen, bbox, requests, responses>>
    /\ UNCHANGED <<filter, calls, probe>>

\* routes_near_waypoints up to while True of the _paginate it calls
routes_near_waypoints_enter(c) ==
    /\ pc[c] = "start"
    /\ args[c].op = "near"
    /\ LET pro == near_prologue(args[c].waypoints, args[c].max_distance_m,
                                args[c].route_params)
       IN  /\ bbox' = [bbox EXCEPT ![c] = pro.bbox]
           /\ qparams' = [qparams EXCEPT ![c] = pro.p]
           /\ offset' = [offset EXCEPT ![c] = pro.offset]
           /\ CASE pro.ctl = "return" -> Return(c, <<>>)
                [] pro.ctl = "raise"  -> Raise(c)
                [] pro.ctl = "fetch"  -> pc' = [pc EXCEPT ![c] = "loop"] /\ UNCHANGED result
    /\ UNCHANGED <<catalog, mode, args, items, seen, requests, responses>>
    /\ UNCHANGED <<filter, calls, probe>>

\* offset is kept on the object: every call reads the cell of the first call
frame_offset_on_self(c) == offset[1]

\* offset is a local of _paginate: call c reads the one of its own frame
frame_offset(c) == offset[c]

\* the top of the loop body: the request goes out through client.list_routes /
\* list_waypoints / get
send_page_request(c) ==
    /\ pc[c] = "loop"
    /\ requests' = [requests EXCEPT
                      ![c] = Append(@, client_request(args[c].endpoint,
                                 page_params(qparams[c], args[c].page_size, frame_offset(c))))]
    /\ pc' = [pc EXCEPT ![c] = "wait"]
    /\ UNCHANGED <<catalog, mode, args, qparams, items, offset, seen, bbox,
                   responses, result>>
    /\ UNCHANGED <<filter, calls, probe>>

\* the response arrives: the rest of the loop body, and when _paginate returns
\* inside routes_near_waypoints, the join and the sort
receive_page(c) ==
    /\ pc[c] = "wait"
    /\ \E res \in ServerAnswers(requests[c][Len(requests[c])]) :
         LET step == paginate_page(items[c], frame_offset(c), seen[c], args[c].page_size,
                                   args[c].max_items, res)
             join == near_join(step.items, args[c].waypoints, args[c].max_distance_m)
         IN  /\ responses' = [responses EXCEPT ![c] = Append(@, res)]
             /\ items' = [items EXCEPT ![c] = step.items]
             /\ offset' = [offset EXCEPT ![c] = step.offset]
             /\ seen' = [seen EXCEPT ![c] = step.seen]
             /\ CASE step.ctl = "raise" -> Raise(c)
                  [] step.ctl = "loop" -> pc' = [pc EXCEPT ![c] = "loop"] /\ UNCHANGED result
                  [] step.ctl = "return" /\ args[c].op = "fetch_all" -> Return(c, step.items)
                  [] step.ctl = "return" /\ args[c].op = "near" ->
                       IF join.raised THEN Raise(c) ELSE Return(c, join.matches)
    /\ UNCHANGED <<catalog, mode, args, qparams, bbox, requests>>
    /\ UNCHANGED <<filter, calls, probe>>

Next ==
    \E c \in CallIds :
        \/ paginate_enter(c)
        \/ routes_near_waypoints_enter(c)
        \/ send_page_request(c)
        \/ receive_page(c)

Spec == Init /\ [][Next]_vars

\* _paginate alone against a server that answers (offset, limit) with that
\* slice; the sequential program runs on and every request is answered
ExactFetchInit ==
    /\ mode = "exact"
    /\ catalog \in PlainCatalogs
    /\ \E a \in FetchArgs : OneCall(a)
    /\ InitLocals
    /\ NoFilter
    /\ NoProbe

FetchNext ==
    \E c \in CallIds :
        \/ paginate_enter(c)
        \/ send_page_request(c)
        \/ receive_page(c)

ExactFetchSpec == ExactFetchInit /\ [][FetchNext]_vars /\ WF_vars(FetchNext)

\* two calls at once through one C2CSearch, against a server that answers
\* (offset, limit) with that slice: their steps interleave in any order
ConcurrentFetchArgs ==
    { [op |-> "fetch_all", endpoint |-> q.endpoint, page_size |-> ps, max_items |-> mi,
       params |-> q.params, waypoints |-> <<>>, max_distance_m |-> 0,
       route_params |-> Null] :
      q \in { [endpoint |-> "routes",    params |-> EmptyMap],
              [endpoint |-> "waypoints", params |-> [offset |-> Num(1)]] },
      ps \in {1, MaxPageSize}, mi \in {Null, Num(MaxN - 2)} }

ConcurrentNearArgs ==
    [op : {"near"}, endpoint : {"routes"}, page_size : {MaxPageSize},
     max_items : {Null}, params : {EmptyMap},
     waypoints : {<<W1>>, <<W3, W2>>}, max_distance_m : {5},
     route_params : {Null, Dict([act |-> Str("mountain_climbing"), offset |-> Num(1)])}]

ConcurrentInit ==
    /\ mode = "exact"
    /\ catalog \in {SubSeq(<<R1, R2, R3, R4, R5, R6>>, 1, n) : n \in {2, MaxN}}
    /\ args \in [CallIds -> ConcurrentFetchArgs \cup ConcurrentNearArgs]
    /\ pc = [c \in CallIds |-> "start"]
    /\ InitLocals
    /\ NoFilter
    /\ NoProbe

ConcurrentSpec == ConcurrentInit /\ [][Next]_vars

(* ------------------------------ the filters --------------------------- *)
\* how to_query_params writes the named field attr of a filter of the kind; a
\* field it has no statement for is a plain Optional[str]
HowOf(kind, attr) ==
    LET table == BaseFields \o KindFields(kind)
        hit   == {i \in DOMAIN table : table[i].attr = attr}
    IN  IF hit = {} THEN "raw" ELSE table[CHOOSE i \in hit : TRUE].how

\* values a named field is given, by the way it is written
FieldValues(how) ==
    CASE how = "raw"   -> {Str("alps"), Str("")}
      [] how = "bbox"  -> {List(<<Num(0), Num(1), Num(2), Num(3)>>), List(<<>>)}
      [] how = "join"  -> {List(<<Str("a"), Str("b")>>), Str("x"),
                           List(<<Num(123), Num(456)>>), List(<<>>),
                           Iter(<<Str("a"), Str("b")>>)}
      [] how = "int"   -> {Num(50), Num(0)}
      [] how = "range" -> {List(<<Num(1000), Num(3000)>>), List(<<Num(200), Null>>),
                           List(<<Null, Num(10000)>>), Str("5,6"),
                           List(<<Str("AD"), Str("D+")>>), List(<<Null, Null>>)}
      [] how = "lift"  -> {Bool(TRUE), Bool(FALSE), Str("yes")}

\* the value a field is given when two fields are set together
OneValue(how) ==
    CASE how = "raw"   -> Str("alps")
      [] how = "bbox"  -> List(<<Num(0), Num(1), Num(2), Num(3)>>)
      [] how = "join"  -> List(<<Str("a"), Str("b")>>)
      [] how = "int"   -> Num(50)
      [] how = "range" -> List(<<Num(1000), Num(3000)>>)
      [] how = "lift"  -> Bool(TRUE)

\* extras a filter is constructed with
ExtrasChoices ==
    { EmptyMap, [prom |-> Num(300)], [zz |-> Null], [tags |-> List(<<>>)],
      [q |-> Str("")] }

\* filters with one named field given, of every field and every value
SingleFieldFilters ==
    UNION { UNION { { NewFilter(k, [Blank(k) EXCEPT ![a] = v], e) :
                        v \in FieldValues(HowOf(k, a)), e \in ExtrasChoices } :
                    a \in Attrs(k) } : k \in Kinds }

\* filters with two named fields given and no extras
TwoFieldFilters ==
    UNION { { NewFilter(k, [Blank(k) EXCEPT ![p[1]] = OneValue(HowOf(k, p[1])),
                                           ![p[2]] = OneValue(HowOf(k, p[2]))], EmptyMap) :
                p \in {q \in Attrs(k) \X Attrs(k) : q[1] # q[2]} } : k \in Kinds }

\* filters on which set is then called
SetFilters ==
    { NewFilter(k, Blank(k), EmptyMap) : k \in Kinds }
        \cup { NewFilter(k, [Blank(k) EXCEPT !["q"] = Str("alps")], EmptyMap) : k \in Kinds }
        \cup { NewFilter("base", [Blank("base") EXCEPT !["fields"] = Iter(<<Str("a"), Str("b")>>)],
                          EmptyMap) }
        \cup { NewFilter(k, [Blank(k) EXCEPT !["act"] = List(<<Str("a"), Str("b")>>),
                                             !["elevation"] = List(<<Num(200), Null>>)],
                          EmptyMap) : k \in {"route", "waypoint"} }

\* keys and values handed to set
SetKeys == {"q", "act", "zz"}

SetValues == {Null, Str("v"), List(<<Str("c"), Str("d")>>)}

\* no call of the search is under way
IdleSearch ==
    /\ catalog = <<>>
    /\ mode = "exact"
    /\ args = [c \in CallIds |-> NoArgs]
    /\ pc = [c \in CallIds |-> "none"]
    /\ InitLocals

\* what is kept of a call on the filter
Called(op, key, value, raised, params) ==
    [op |-> op, key |-> key, value |-> value, raised |-> raised, params |-> params]

\* flt.set(key, value)
filter_set(key, value) ==
    /\ filter.kind # "none"
    /\ Len(calls) < MaxCalls
    /\ filter' = filter_set_extra(filter, key, value)
    /\ calls' = Append(calls, Called("set", key, value, FALSE, EmptyMap))
    /\ UNCHANGED <<catalog, mode, args, pc, qparams, items, offset, seen, bbox,
                   requests, responses, result, probe>>

\* flt.to_query_params(): the mapping it returns, or that it raised
filter_to_query_params ==
    /\ filter.kind # "none"
    /\ Len(calls) < MaxCalls
    /\ filter' = [filter EXCEPT !.fields = to_query_params(filter).fields]
    /\ calls' = Append(calls,
                       Called("to_query_params", "", Null, to_query_params(filter).raised,
                              IF to_query_params(filter).raised THEN EmptyMap
                              ELSE to_query_params(filter).params))
    /\ UNCHANGED <<catalog, mode, args, pc, qparams, items, offset, seen, bbox,
                   requests, responses, result, probe>>

\* a filter is constructed and serialized, again and again
FilterInit ==
    /\ IdleSearch
    /\ NoProbe
    /\ filter \in SingleFieldFilters \cup TwoFieldFilters
    /\ calls = <<>>

FilterNext == filter_to_query_params

FilterSpec == FilterInit /\ [][FilterNext]_vars

\* a filter on which set and to_query_params are called in any order
FilterSetInit ==
    /\ IdleSearch
    /\ NoProbe
    /\ filter \in SetFilters
    /\ calls = <<>>

FilterSetNext ==
    \/ \E key \in SetKeys, value \in SetValues : filter_set(key, value)
    \/ filter_to_query_params

FilterSetSpec == FilterSetInit /\ [][FilterSetNext]_vars

(* -------------------------- the geometry helpers ---------------------- *)
\* a key a dict is built without
Absent == [t |-> "absent", v |-> 0]

\* the dict of the pairs given, less the keys that are Absent
DictOf(f) == Dict([k \in {j \in DOMAIN f : f[j] # Absent} |-> f[k]])

Vertex(x, y) == List(<<Num(x), Num(y)>>)

\* vertex lists: a closed ring, a line of two vertices, one vertex with a height
Rings ==
    { <<Vertex(1, 2), Vertex(3, 4), Vertex(1, 2)>>,
      <<Vertex(5, 6), Vertex(7, 8)>>,
      <<List(<<Num(9), Num(0), Num(4)>>)>> }

\* how deep the vertex lists of a GeoJSON type lie in its coordinates
DepthOf ==
    [Point |-> 0, MultiPoint |-> 1, LineString |-> 1, Polygon |-> 2,
     MultiLineString |-> 2, MultiPolygon |-> 3]

GeometryTypes == DOMAIN DepthOf

\* the coordinates of a geometry of the type whose first part is the ring;
\* parts after the first hold the vertex (8, 8)
RECURSIVE Nested(_, _)
Nested(ring, depth) ==
    IF depth = 0 THEN ring[1]
    ELSE IF depth = 1 THEN List(ring)
    ELSE List(<<Nested(ring, depth - 1), Nested(<<Vertex(8, 8)>>, depth - 1)>>)

WellFormed(type, ring) ==
    DictOf([type |-> Str(type), coordinates |-> Nested(ring, DepthOf[type])])

\* coordinates that are no vertex and no list of vertices
OddCoordinates ==
    { Absent, Null, List(<<>>), List(<<Num(1)>>), List(<<Str("1"), Str("2")>>),
      List(<<Str("a"), Str("b")>>), Str("12"), Str("7"), Str(""), Num(5), Num(0),
      List(<<Num(1), Str("ab")>>), List(<<Num(1), Null>>), List(<<List(<<>>)>>),
      List(<<Vertex(1, 2)>>) }

OddTypes == {Absent, Null, Str("Point"), Str("LineString"), Str("Polygon"), Str("Circle")}

\* values that are no geometry object
NonObjects ==
    { Null, Num(5), Num(0), Str("geom"), Str(""), List(<<>>), List(<<Str("geom")>>),
      List(<<Num(1), Num(2)>>), Dict(EmptyMap) }

\* objects with a geom key
Wrappers ==
    { DictOf([geom |-> Str(g), version |-> v]) :
          g \in {GeomPointStr, GeomShortStr, GeomNestedStr, GeomBadStr, "5"},
          v \in {Absent, Num(1)} }
        \cup { Dict([geom |-> Num(5), type |-> Str("Point"), coordinates |-> Vertex(1, 2)]) }

\* the geometries first_point_xy_from_geometry is called with
Geometries ==
    { WellFormed(t, r) : t \in GeometryTypes, r \in Rings }
        \cup { DictOf([type |-> t, coordinates |-> c]) : t \in OddTypes, c \in OddCoordinates }
        \cup Wrappers \cup NonObjects

\* what a document holds under geometry and under bbox
DocGeometries ==
    { Absent, Null, Dict(EmptyMap), WellFormed("Point", <<Vertex(3, 4)>>),
      WellFormed("LineString", <<Vertex(5, 6), Vertex(7, 8)>>),
      Dict([geom |-> Str(GeomPointStr)]), Dict([geom |-> Str(GeomBadStr)]),
      Dict([type |-> Str("Point"), coordinates |-> List(<<Num(1)>>)]),
      Dict([type |-> Str("Polygon")]) }

DocBBoxes ==
    { Absent, Null, BBox(0, 0, 10, 10), BBox(0, 0, 1, 0), List(<<Num(1), Num(2)>>),
      List(<<Num(0), Num(0), Str("ab"), Num(1)>>), Str("12") }

\* the documents doc_point_xy is called with
Documents ==
    { DictOf([document_id |-> Num(1), geometry |-> g, bbox |-> b]) :
          g \in DocGeometries, b \in DocBBoxes }
        \cup { Null, List(<<>>), Str("doc") }

\* the helper is called once on one argument
GeoInit ==
    /\ IdleSearch
    /\ NoFilter
    /\ \/ \E g \in Geometries :
             probe = [fn |-> "first_point_xy_from_geometry", arg |-> g, pc |-> "call",
                      out |-> NoPoint]
       \/ \E d \in Documents :
             probe = [fn |-> "doc_point_xy", arg |-> d, pc |-> "call", out |-> NoPoint]

\* the call returns the point or None, or an exception leaves it
Returned(out) ==
    probe' = [probe EXCEPT !.pc  = IF out.k = "raise" THEN "raised" ELSE "done",
                           !.out = IF out.k = "raise" THEN NoPoint ELSE out]

extract_point_call ==
    /\ probe.fn = "first_point_xy_from_geometry"
    /\ probe.pc = "call"
    /\ Returned(first_point_xy_from_geometry(probe.arg))
    /\ UNCHANGED <<catalog, mode, args, pc, qparams, items, offset, seen, bbox,
                   requests, responses, result, filter, calls>>

document_point_call ==
    /\ probe.fn = "doc_point_xy"
    /\ probe.pc = "call"
    /\ Returned(doc_point_xy(probe.arg))
    /\ UNCHANGED <<catalog, mode, args, pc, qparams, items, offset, seen, bbox,
                   requests, responses, result, filter, calls>>

GeoNext == extract_point_call \/ document_point_call

GeoSpec == GeoInit /\ [][GeoNext]_vars

(* ------------------------------- utils.py ----------------------------- *)
\* the short type codes and the entity path of each
mapping ==
    [r |-> "routes", w |-> "waypoints", o |-> "outings", a |-> "areas",
     i |-> "images", b |-> "books", c |-> "articles", x |-> "xreports",
     u |-> "users"]

\* the heuristics look at activities before waypoint_type
doc_entity_activities_first(doc) ==
    LET t == get(doc, "type", Null)
    IN  IF t.t = "str"
        THEN IF t.v \in DOMAIN mapping THEN Str(mapping[t.v]) ELSE Null
        ELSE IF "activities" \in DOMAIN doc THEN Str("routes")
        ELSE IF "waypoint_type" \in DOMAIN doc THEN Str("waypoints")
        ELSE Null

\* doc_entity(doc), doc the mapping of a dict
doc_entity(doc) ==
    LET t == get(doc, "type", Null)
    IN  IF t.t = "str"
        THEN IF t.v \in DOMAIN mapping THEN Str(mapping[t.v]) ELSE Null
        ELSE IF "waypoint_type" \in DOMAIN doc THEN Str("waypoints")
        ELSE IF "activities" \in DOMAIN doc THEN Str("routes")
        ELSE Null

\* doc.get("document_id") or doc.get("id")
doc_id(doc) ==
    IF Truthy(get(doc, "document_id", Null)) THEN doc["document_id"]
    ELSE get(doc, "id", Null)

C2CBase == "https://www.camptocamp.org"

\* the base addresses doc_url is called with
Bases == {C2CBase, "https://c2c.test/", "https://c2c.test//"}

\* base.rstrip('/')
rstrip_slash(base) ==
    CASE base = C2CBase -> C2CBase
      [] base = "https://c2c.test/" -> "https://c2c.test"
      [] base = "https://c2c.test//" -> "https://c2c.test"

\* doc_url(doc, base): the address, None, or Raises for a doc without .get
doc_url(doc, base) ==
    IF doc.t # "dict" THEN Raises
    ELSE LET entity == doc_entity(doc.v)
             did    == doc_id(doc.v)
         IN  IF ~Truthy(entity) \/ ~Truthy(did) THEN Null
             ELSE Str(rstrip_slash(base) \o "/" \o entity.v \o "/" \o py_str(did))

\* what a document holds under type, waypoint_type, activities, document_id, id
UrlTypes ==
    {Absent, Null, Num(5), Str("z"), Str("")} \cup {Str(code) : code \in DOMAIN mapping}

UrlDocuments ==
    { DictOf([type |-> t, waypoint_type |-> w, activities |-> a,
              document_id |-> d, id |-> n]) :
          t \in UrlTypes,
          w \in {Absent, Null, Str("summit")},
          a \in {Absent, List(<<Str("hiking")>>)},
          d \in {Absent, Null, Num(0), Num(123), Str("12")},
          n \in {Absent, Num(0), Num(7)} }
        \cup {Null, List(<<>>)}

\* doc_url is called once on one document and one base
UrlInit ==
    /\ IdleSearch
    /\ NoFilter
    /\ \E doc \in UrlDocuments, base \in Bases :
          probe = [fn |-> "doc_url", arg |-> doc, base |-> base, pc |-> "call",
                   out |-> Null]

doc_url_call ==
    /\ probe.fn = "doc_url"
    /\ probe.pc = "call"
    /\ LET out == doc_url(probe.arg, probe.base)
       IN  probe' = [probe EXCEPT !.pc  = IF out = Raises THEN "raised" ELSE "done",
                                  !.out = IF out = Raises THEN Null ELSE out]
    /\ UNCHANGED <<catalog, mode, args, pc, qparams, items, offset, seen, bbox,
                   requests, responses, result, filter, calls>>

UrlNext == doc_url_call

UrlSpec == UrlInit /\ [][UrlNext]_vars

(* ------------------------- reading the history ------------------------ *)
\* res is a listing: a success whose body carries a documents array
IsListing(res) ==
    /\ res.status = "ok"
    /\ res.body.t = "dict"
    /\ "documents" \in DOMAIN res.body.v
    /\ res.body.v["documents"].t = "list"

\* the documents of the page res
PageDocs(res) == IF IsListing(res) THEN res.body.v["documents"].v ELSE <<>>

\* the pages call c received so far, one after another
RECURSIVE PagesUpTo(_, _)
PagesUpTo(c, n) ==
    IF n = 0 THEN <<>> ELSE PagesUpTo(c, n - 1) \o PageDocs(responses[c][n])

AllPages(c) == PagesUpTo(c, Len(responses[c]))

\* the offset a query asks to start from
QueryOffset(params) ==
    IF "offset" \notin DOMAIN params THEN 0
    ELSE IF params["offset"].t = "num" THEN params["offset"].v
    ELSE IF params["offset"].t = "str" /\ IsNumeral(params["offset"].v)
         THEN NumeralValue(params["offset"].v)
    ELSE 0

\* the offset of the first request of call c
FirstOffset(c) == requests[c][1].params["offset"].v

IsFetch(c) == args[c].op = "fetch_all"

IsNear(c) == args[c].op = "near"

(* ------------------------------- claims ------------------------------- *)
\* C1 (as claimed): whenever max_items is given, fetch_all returns at most
\* max_items documents, and exactly max_items when the server holds at least
\* that many from the starting offset on, for every max_items (0 included)
\* and every page_size.
C1_CapExact ==
    \A c \in CallIds :
        (IsFetch(c) /\ pc[c] = "done" /\ args[c].max_items # Null) =>
            /\ Len(result[c]) <= args[c].max_items.v
            /\ (mode = "exact" /\ Len(catalog) - FirstOffset(c) >= args[c].max_items.v)
                   => Len(result[c]) = args[c].max_items.v

\* C2: with page_size P >= 1, when the pages received are k full pages and then
\* one page of s documents, fetch_all without a cap and 1 <= s < P has returned
\* k*P+s documents after k+1 requests, and with max_items = m, 1 <= m <= k*P+s
\* (1 <= s <= P), it has returned m documents after ceil(m/P) requests.
C2_FullPagesThenShort ==
    \A c \in CallIds :
        (IsFetch(c) /\ args[c].page_size >= 1 /\ Len(responses[c]) >= 1) =>
            LET P == args[c].page_size
                n == Len(responses[c])
                s == Len(PageDocs(responses[c][n]))
                total == (n - 1) * P + s
                scripted ==
                    /\ \A i \in 1..n : IsListing(responses[c][i])
                    /\ \A i \in 1..(n - 1) : Len(PageDocs(responses[c][i])) = P
                    /\ 1 <= s /\ s <= P
            IN  /\ (scripted /\ args[c].max_items = Null /\ s < P) =>
                       /\ pc[c] = "done"
                       /\ Len(result[c]) = total
                       /\ Len(requests[c]) = n
                /\ (scripted /\ args[c].max_items # Null /\ 1 <= args[c].max_items.v
                        /\ args[c].max_items.v <= total) =>
                       /\ pc[c] = "done"
                       /\ Len(result[c]) = args[c].max_items.v
                       /\ Len(requests[c]) = (args[c].max_items.v + P - 1) \div P

\* two full pages of 2 and a short page of 1, no cap: 5 documents, 3 requests
C2_Witness ==
    \E c \in CallIds :
        /\ IsFetch(c) /\ pc[c] = "done" /\ args[c].max_items = Null
        /\ args[c].page_size = 2
        /\ Len(responses[c]) = 3
        /\ \A i \in 1..3 : IsListing(responses[c][i])
        /\ Len(PageDocs(responses[c][3])) = 1
        /\ Len(result[c]) = 5

\* C3: against a server that answers (offset, limit) with that slice of its N
\* documents, fetch_all with page_size >= 1 and no max_items terminates, and
\* what it returns is the collection from the starting offset to its end, in
\* server order.
C3_Premise(c) ==
    mode = "exact" /\ IsFetch(c) /\ args[c].page_size >= 1 /\ args[c].max_items = Null

C3_Exhaustive ==
    /\ [](\A c \in CallIds :
            (C3_Premise(c) /\ pc[c] = "done") =>
                result[c] = SubSeq(catalog, FirstOffset(c) + 1, Len(catalog)))
    /\ \A c \in CallIds : (C3_Premise(c) /\ pc[c] = "loop") ~> (pc[c] = "done")

\* the remaining count is a multiple of page_size: the stop is an empty page
C3_Witness ==
    \E c \in CallIds :
        /\ C3_Premise(c) /\ pc[c] = "done"
        /\ Len(responses[c]) = 3
        /\ PageDocs(responses[c][3]) = <<>>
        /\ Len(result[c]) = 2 * args[c].page_size
        /\ FirstOffset(c) > 0

\* what C4 says of the requests: limit = page_size on every request, the first
\* offset is the query's, each later offset adds the size of the page before,
\* and a request goes out only when the one before was answered
C4_Requests(c) ==
    /\ \A i \in 1..Len(requests[c]) :
          /\ requests[c][i].params["limit"] = Num(args[c].page_size)
          /\ requests[c][i].params["offset"] =
                Num(IF i = 1 THEN QueryOffset(args[c].params)
                    ELSE requests[c][i - 1].params["offset"].v
                             + Len(PageDocs(responses[c][i - 1])))
    /\ Len(requests[c]) = Len(responses[c]) + (IF pc[c] = "wait" THEN 1 ELSE 0)

\* C4 (as claimed): ... and the result is the concatenation of the pages in
\* request order.
C4_ResultIsAllPages ==
    \A c \in CallIds :
        IsFetch(c) =>
            /\ C4_Requests(c)
            /\ pc[c] = "done" => result[c] = AllPages(c)

\* C4 (amended): every request carries limit = page_size, the first offset is
\* the query's, each later offset adds the size of the page before, requests go
\* out one after another, and the result is the concatenation of the pages in
\* request order when no max_items is given; when max_items is given it is a
\* leading part of that concatenation, all of it unless max_items documents
\* were reached.
C4_ResultIsPrefixOfPages ==
    \A c \in CallIds :
        IsFetch(c) =>
            /\ C4_Requests(c)
            /\ pc[c] = "done" =>
                 LET all == AllPages(c)
                 IN  /\ Len(result[c]) <= Len(all)
                     /\ result[c] = SubSeq(all, 1, Len(result[c]))
                     /\ args[c].max_items = Null => result[c] = all
                     /\ Len(result[c]) < Len(all) =>
                            Len(result[c]) >= args[c].max_items.v

\* a query with its own limit and offset, two requests, the last page cut
C4_Witness ==
    \E c \in CallIds :
        /\ IsFetch(c) /\ pc[c] = "done"
        /\ "limit" \in DOMAIN args[c].params
        /\ FirstOffset(c) = 2
        /\ Len(requests[c]) = 2
        /\ Len(result[c]) < Len(AllPages(c))

\* C5: when a page request fails, the call ends in failure: nothing is
\* returned, the failed request is the last response and the last request.
C5_FailureAborts ==
    \A c \in CallIds :
        \A i \in 1..Len(responses[c]) :
            responses[c][i].status = "error" =>
                /\ pc[c] = "raised"
                /\ result[c] = <<>>
                /\ i = Len(responses[c])
                /\ Len(requests[c]) = i

\* near fails on its second page, with routes of the first already collected
C5_Witness ==
    \E c \in CallIds :
        /\ IsNear(c) /\ pc[c] = "raised"
        /\ Len(responses[c]) = 2
        /\ responses[c][2].status = "error"
        /\ Len(items[c]) >= 2

\* the planar distance of two points, squared, in half metres
Dist2(p, q) == (p.x - q.x) * (p.x - q.x) + (p.y - q.y) * (p.y - q.y)

\* threshold_m metres, squared, in half metres
Threshold2(threshold_m) == (2 * threshold_m) * (2 * threshold_m)

\* route r and waypoint w both yield a point and lie within threshold_m
Qualifies(r, w, threshold_m) ==
    /\ doc_point_xy(r).k = "pt"
    /\ doc_point_xy(w).k = "pt"
    /\ threshold_m >= 0
    /\ Dist2(doc_point_xy(r), doc_point_xy(w)) <= Threshold2(threshold_m)

\* the pairs (position of a fetched route, position of a waypoint) that qualify
QualifyingPairs(c) ==
    {q \in (1..Len(items[c])) \X (1..Len(args[c].waypoints)) :
        Qualifies(items[c][q[1]], args[c].waypoints[q[2]], args[c].max_distance_m)}

\* C6: near with no waypoints returns no match and sends no request.
C6_NoWaypoints ==
    \A c \in CallIds :
        (IsNear(c) /\ args[c].waypoints = <<>>) =>
            /\ requests[c] = <<>>
            /\ pc[c] # "start" => (pc[c] = "done" /\ result[c] = <<>>)

C6_Witness ==
    \E c \in CallIds : IsNear(c) /\ args[c].waypoints = <<>> /\ pc[c] = "done"

\* the waypoint has no geometry a point can be taken from and no 4-element bbox
NoCoordinate(wp) ==
    /\ doc_point_xy(wp).k # "pt"
    /\ ~(get(wp.v, "bbox", Null).t = "list" /\ Len(get(wp.v, "bbox", Null).v) = 4)

\* C7 (as claimed): near with waypoints none of which yields a coordinate
\* returns no match, without raising and without sending a request.
C7_NoCoordinates ==
    \A c \in CallIds :
        (IsNear(c) /\ args[c].waypoints # <<>>
            /\ \A j \in 1..Len(args[c].waypoints) : NoCoordinate(args[c].waypoints[j])) =>
            /\ requests[c] = <<>>
            /\ pc[c] # "start" => (pc[c] = "done" /\ result[c] = <<>>)

\* C8: every match near returns lies within threshold_m, and the matches are in
\* non-decreasing order of distance.
C8_WithinThresholdSorted ==
    \A c \in CallIds :
        (IsNear(c) /\ pc[c] = "done") =>
            /\ \A k \in 1..Len(result[c]) :
                  /\ args[c].max_distance_m >= 0
                  /\ result[c][k].distance_m <= Threshold2(args[c].max_distance_m)
            /\ \A k \in 1..(Len(result[c]) - 1) :
                  result[c][k].distance_m <= result[c][k + 1].distance_m

\* three matches or more, of different distances, one of them at the threshold
C8_Witness ==
    \E c \in CallIds :
        /\ IsNear(c) /\ pc[c] = "done"
        /\ Len(result[c]) >= 3
        /\ result[c][1].distance_m < result[c][Len(result[c])].distance_m
        /\ result[c][Len(result[c])].distance_m = Threshold2(args[c].max_distance_m)
        /\ \E k \in 2..Len(items[c]) :
              \E m \in 1..Len(result[c]) :
                  /\ result[c][m].route = items[c][k]
                  /\ \E n \in (m + 1)..Len(result[c]) : result[c][n].route = items[c][1]

\* C9: near returns one match for every pair of a fetched route and a waypoint
\* that both yield a point and lie at most threshold_m apart, and nothing else.
C9_ExactlyQualifyingPairs ==
    \A c \in CallIds :
        (IsNear(c) /\ pc[c] = "done") =>
            LET routes == items[c]
                wps    == args[c].waypoints
                pairs  == QualifyingPairs(c)
                hits(r, w) == {k \in 1..Len(result[c]) :
                                 result[c][k].route = r /\ result[c][k].waypoint = w}
            IN  /\ Len(result[c]) = Cardinality(pairs)
                /\ \A q \in pairs :
                      /\ Cardinality(hits(routes[q[1]], wps[q[2]])) =
                            Cardinality({o \in pairs : /\ routes[o[1]] = routes[q[1]]
                                                       /\ wps[o[2]] = wps[q[2]]})
                      /\ \A k \in hits(routes[q[1]], wps[q[2]]) :
                            result[c][k].distance_m =
                                Dist2(doc_point_xy(routes[q[1]]), doc_point_xy(wps[q[2]]))
                /\ \A k \in 1..Len(result[c]) :
                      \E q \in pairs : k \in hits(routes[q[1]], wps[q[2]])

\* a pair exactly at the threshold is kept, a pair beyond it is not, and a route
\* and a waypoint without a point were among the inputs
C9_Witness ==
    \E c \in CallIds :
        /\ IsNear(c) /\ pc[c] = "done"
        /\ \E k \in 1..Len(result[c]) :
              /\ result[c][k].distance_m = Threshold2(args[c].max_distance_m)
              /\ result[c][k].distance_m > 0
        /\ \E i \in 1..Len(items[c]) : doc_point_xy(items[c][i]).k = "none"
        /\ \E j \in 1..Len(args[c].waypoints) : doc_point_xy(args[c].waypoints[j]).k = "none"
        /\ \E i \in 1..Len(items[c]) :
              /\ doc_point_xy(items[c][i]).k = "pt"
              /\ \A k \in 1..Len(result[c]) : result[c][k].route # items[c][i]

\* C10: matches of equal distance stand in the order the pairs were met: routes
\* in fetched order, and for one route the waypoints in input order.
C10_TiesInDiscoveryOrder ==
    \A c \in CallIds :
        (IsNear(c) /\ pc[c] = "done") =>
            LET routes == items[c]
                wps    == args[c].waypoints
                W      == Len(wps)
                met    == [k \in 1..(Len(routes) * W) |->
                             <<((k - 1) \div W) + 1, ((k - 1) % W) + 1>>]
                docs(q) == <<routes[q[1]], wps[q[2]]>>
            IN  \A k \in 1..Len(result[c]) :
                    LET d == result[c][k].distance_m
                        atD(m) == m.distance_m = d
                        metAtD(q) ==
                            /\ q \in QualifyingPairs(c)
                            /\ Dist2(doc_point_xy(routes[q[1]]), doc_point_xy(wps[q[2]])) = d
                        got  == SelectSeq(result[c], atD)
                        want == SelectSeq(met, metAtD)
                    IN  /\ Len(got) = Len(want)
                        /\ \A n \in 1..Len(got) :
                              <<got[n].route, got[n].waypoint>> = docs(want[n])

\* three matches of one distance: two of one route, the third of a later route
C10_Witness ==
    \E c \in CallIds :
        /\ IsNear(c) /\ pc[c] = "done"
        /\ \E k \in 1..(Len(result[c]) - 2) :
              /\ result[c][k].distance_m = result[c][k + 2].distance_m
              /\ result[c][k].route = result[c][k + 1].route
              /\ result[c][k].waypoint # result[c][k + 1].waypoint
              /\ result[c][k + 1].route # result[c][k + 2].route

\* the x (k = "x") or y (k = "y") coordinates near collects from the waypoints:
\* the point of a waypoint that yields one, else the two corners of its
\* 4-element bbox
Collected(wps, k) ==
    UNION { LET w  == wps[j]
                pt == doc_point_xy(w)
                bb == get(w.v, "bbox", Null)
            IN  IF pt.k = "pt" THEN {IF k = "x" THEN pt.x ELSE pt.y}
                ELSE IF bb.t = "list" /\ Len(bb.v) = 4
                THEN IF k = "x" THEN {float(bb.v[1]), float(bb.v[3])}
                                ELSE {float(bb.v[2]), float(bb.v[4])}
                ELSE {} : j \in 1..Len(wps) }

SetMin(S) == CHOOSE m \in S : \A e \in S : m <= e

SetMax(S) == CHOOSE m \in S : \A e \in S : m >= e

\* max(threshold_m, 1000) metres, in half metres
PadOf(threshold_m) == 2 * (IF threshold_m > 1000 THEN threshold_m ELSE 1000)

\* the box C11 describes for the waypoints and threshold of call c
ClaimedBox(c) ==
    LET xs  == Collected(args[c].waypoints, "x")
        ys  == Collected(args[c].waypoints, "y")
        pad == PadOf(args[c].max_distance_m)
    IN  <<SetMin(xs) - pad, SetMin(ys) - pad, SetMax(xs) + pad, SetMax(ys) + pad>>

BoxText(box) ==
    FloatStr(box[1]) \o "," \o FloatStr(box[2]) \o "," \o FloatStr(box[3]) \o ","
        \o FloatStr(box[4])

\* C11: the box near sends with every route request is (minX - pad,
\* minY - pad, maxX + pad, maxY + pad) over the coordinates collected from the
\* waypoints, pad = max(threshold_m, 1000), and so minX <= maxX and
\* minY <= maxY, whatever the threshold.
C11_PaddedBox ==
    \A c \in CallIds :
        (IsNear(c) /\ Len(requests[c]) >= 1) =>
            /\ bbox[c] = ClaimedBox(c)
            /\ bbox[c][1] <= bbox[c][3] /\ bbox[c][2] <= bbox[c][4]
            /\ \A i \in 1..Len(requests[c]) :
                  requests[c][i].params["bbox"] = Str(BoxText(ClaimedBox(c)))

\* two requests went out for two waypoints at different places, one of them
\* known by its bbox only, with a threshold below zero and route_params given
C11_Witness ==
    \E c \in CallIds :
        /\ IsNear(c) /\ Len(requests[c]) = 2
        /\ args[c].max_distance_m < 0
        /\ args[c].route_params # Null
        /\ Len(args[c].waypoints) = 2
        /\ \E j \in 1..2 : "geometry" \notin DOMAIN args[c].waypoints[j].v
        /\ bbox[c][1] + 2 * PadOf(0) < bbox[c][3]

\* the displacements tried around a point for the threshold: the four
\* extreme ones, the diagonal 3-4-5 ones, and those half a metre inside
ProbeOffsets(threshold_m) ==
    LET F == 2 * threshold_m
        side == {-F, -(F - 1), -((4 * F) \div 5), -((3 * F) \div 5), 0,
                 (3 * F) \div 5, (4 * F) \div 5, F - 1, F}
    IN  IF threshold_m < 0 THEN {}
        ELSE {d \in side \X side : d[1] * d[1] + d[2] * d[2] <= F * F}

\* C12: every point within threshold_m of the point of an input waypoint lies
\* inside the padded box near fetches the routes of, bounds included.
C12_BoxCoversMatches ==
    \A c \in CallIds :
        (IsNear(c) /\ Len(requests[c]) >= 1) =>
            \A j \in 1..Len(args[c].waypoints) :
                LET p == doc_point_xy(args[c].waypoints[j])
                IN  p.k = "pt" =>
                        \A d \in ProbeOffsets(args[c].max_distance_m) :
                            point_in_bbox(p.x + d[1], p.y + d[2], bbox[c])

\* a threshold above the floor of the pad, two waypoints with different points
C12_Witness ==
    \E c \in CallIds :
        /\ IsNear(c) /\ Len(requests[c]) >= 1
        /\ args[c].max_distance_m > 1000
        /\ Len(args[c].waypoints) = 2
        /\ \A j \in 1..2 : doc_point_xy(args[c].waypoints[j]).k = "pt"
        /\ doc_point_xy(args[c].waypoints[1]) # doc_point_xy(args[c].waypoints[2])
        /\ <<2 * args[c].max_distance_m, 0>> \in ProbeOffsets(args[c].max_distance_m)

(* --------------------------- claims on filters ------------------------ *)
\* the last call on the filter was to_query_params and it returned a mapping
Serialized ==
    /\ calls # <<>>
    /\ calls[Len(calls)].op = "to_query_params"
    /\ ~calls[Len(calls)].raised

\* the mapping the last call returned
Wire == calls[Len(calls)].params

\* the statements of to_query_params for the named fields of the filter
NamedFields == BaseFields \o KindFields(filter.kind)

\* the value an entry of the extension map goes out as: a list joined by commas
ExtraOnWire(v) == IF v.t = "list" THEN Str(comma_join(v.v)) ELSE v

\* C13 (as claimed): the extension map is applied after all named fields: a
\* key it holds a non-null value under goes out with that value, also when a
\* named field of the base class or of the subclass writes the same key.
C13_ExtrasAppliedLast ==
    Serialized =>
        \A k \in DOMAIN filter.extras :
            filter.extras[k] # Null =>
                /\ k \in DOMAIN Wire
                /\ Wire[k] = ExtraOnWire(filter.extras[k])

\* C14 (as claimed): the serialized output has no key for a named field that
\* is None, and no key whose value is None or the empty string.
C14_NoNullNoEmpty ==
    Serialized =>
        /\ \A i \in DOMAIN NamedFields :
              (filter.fields[NamedFields[i].attr] = Null
                  /\ NamedFields[i].key \notin DOMAIN filter.extras)
                  => NamedFields[i].key \notin DOMAIN Wire
        /\ \A k \in DOMAIN Wire : Wire[k] # Null /\ Wire[k] # Str("")

\* C15 (as claimed): with no extras every non-null named field of a filter
\* goes out under one wire key of its own, so that the output has as many keys
\* as the filter has non-null named fields.
C15_OneKeyPerField ==
    (Serialized /\ filter.extras = EmptyMap) =>
        Cardinality(DOMAIN Wire)
            = Cardinality({a \in Attrs(filter.kind) : filter.fields[a] # Null})

\* one side of a range as text: nothing for an open side
SideText(x) == IF x = Null THEN "" ELSE IF x.t = "num" THEN ToString(x.v) ELSE x.v

\* the fields of the filter that hold a range
RangeFields == {i \in DOMAIN NamedFields : NamedFields[i].how = "range"}

\* C16: a range field given as a pair (lo, hi) goes out as lo "," hi with an
\* open side empty, and a range field given as a string goes out unchanged.
C16_RangeFormat ==
    Serialized =>
        \A i \in RangeFields :
            LET v == filter.fields[NamedFields[i].attr]
                k == NamedFields[i].key
            IN  /\ (v.t = "list" /\ Len(v.v) = 2) =>
                       /\ k \in DOMAIN Wire
                       /\ Wire[k] = Str(SideText(v.v[1]) \o "," \o SideText(v.v[2]))
                /\ v.t = "str" => (k \in DOMAIN Wire /\ Wire[k] = v)

\* a waypoint filter with a range open above, written with its side empty
C16_Witness ==
    /\ Serialized
    /\ filter.kind = "waypoint"
    /\ \E i \in RangeFields :
          /\ filter.fields[NamedFields[i].attr] = List(<<Num(200), Null>>)
          /\ Wire[NamedFields[i].key] = Str("200,")

\* C17 (as claimed): to_query_params does not modify the filter: two calls of
\* it with no set in between return equal mappings (calls keeps every mapping as
\* it was returned; a later set leaves them as they are).
C17_WireRepeatable ==
    \A i \in 1..(Len(calls) - 1) :
        (calls[i].op = "to_query_params" /\ calls[i + 1].op = "to_query_params") =>
            /\ calls[i + 1].raised = calls[i].raised
            /\ calls[i + 1].params = calls[i].params

(* ----------------------- claims on point extraction -------------------- *)
ExtractCalled == probe.fn = "first_point_xy_from_geometry" /\ probe.pc # "call"

DocumentCalled == probe.fn = "doc_point_xy" /\ probe.pc # "call"

\* C18 (as claimed): first_point_xy_from_geometry never raises: whatever the
\* geometry value, the call returns a point or None.
C18_NeverRaises == ExtractCalled => probe.pc = "done"

\* the point of the vertex [x, y, ...]
VertexPoint(vertex) == Pt(Fix(vertex.v[1].v), Fix(vertex.v[2].v))

\* the geometry is an object of type Point whose coordinates are an array of
\* two numbers or more, and it has no string under geom
IsPlainPoint(g) ==
    /\ g.t = "dict"
    /\ ~("geom" \in DOMAIN g.v /\ g.v["geom"].t = "str")
    /\ get(g.v, "type", Null) = Str("Point")
    /\ get(g.v, "coordinates", Null).t = "list"
    /\ Len(g.v["coordinates"].v) >= 2
    /\ \A i \in 1..2 : g.v["coordinates"].v[i].t = "num"

\* C19: a Point gives (coordinates[0], coordinates[1]); a LineString, a Polygon
\* or a Multi* geometry gives its structurally first vertex, the first element
\* of the first element ... of coordinates, never a later vertex or a centroid.
C19_FirstVertex ==
    ExtractCalled =>
        /\ IsPlainPoint(probe.arg) =>
               /\ probe.pc = "done"
               /\ probe.out = VertexPoint(probe.arg.v["coordinates"])
        /\ \A type \in GeometryTypes, ring \in Rings :
               probe.arg = WellFormed(type, ring) =>
                   /\ probe.pc = "done"
                   /\ probe.out = VertexPoint(ring[1])

\* a MultiLineString whose first line runs from (5, 6) to (7, 8) gave (5, 6)
C19_Witness ==
    /\ ExtractCalled
    /\ probe.arg = WellFormed("MultiLineString", <<Vertex(5, 6), Vertex(7, 8)>>)
    /\ probe.pc = "done"
    /\ probe.out = Pt(Fix(5), Fix(6))

\* the value a document holds under key, None for a document that is no object
DocField(doc, key) == IF doc.t = "dict" THEN get(doc.v, key, Null) ELSE Null

\* box is an array of four numbers
IsBox(box) ==
    /\ box.t = "list"
    /\ Len(box.v) = 4
    /\ \A i \in 1..4 : box.v[i].t = "num"

\* ((minX + maxX) / 2, (minY + maxY) / 2), in half metres
Centroid(box) == Pt(box.v[1].v + box.v[3].v, box.v[2].v + box.v[4].v)

\* the geometry of the document yields a point
GeometryPoint(doc) ==
    /\ Truthy(DocField(doc, "geometry"))
    /\ first_point_xy_from_geometry(DocField(doc, "geometry")).k = "pt"

\* C20 (as claimed): doc_point_xy returns the point of doc.geometry when the
\* extraction yields one, also through a string under geom; otherwise the
\* centroid of doc.bbox when that is an array of four numbers; otherwise None
\* when there is no array of four under bbox.
C20_GeometryThenBBox ==
    DocumentCalled =>
        LET doc  == probe.arg
            box  == DocField(doc, "bbox")
        IN  IF GeometryPoint(doc)
            THEN /\ probe.pc = "done"
                 /\ probe.out = first_point_xy_from_geometry(DocField(doc, "geometry"))
            ELSE /\ IsBox(box) => (probe.pc = "done" /\ probe.out = Centroid(box))
                 /\ ~(box.t = "list" /\ Len(box.v) = 4) =>
                        (probe.pc = "done" /\ probe.out = NoPoint)

(* --------------------------- claims on doc_url ------------------------- *)
UrlCalled == probe.fn = "doc_url" /\ probe.pc # "call" /\ probe.arg.t = "dict"

\* the entity claimed for the document: by its type code when it has one (a
\* type that is a string), else by the fields it has, waypoint_type first
ClaimedEntity(doc) ==
    IF "type" \in DOMAIN doc /\ doc["type"].t = "str"
    THEN CASE doc["type"].v = "r" -> "routes"
           [] doc["type"].v = "w" -> "waypoints"
           [] doc["type"].v = "o" -> "outings"
           [] doc["type"].v = "a" -> "areas"
           [] doc["type"].v = "i" -> "images"
           [] doc["type"].v = "b" -> "books"
           [] doc["type"].v = "c" -> "articles"
           [] doc["type"].v = "x" -> "xreports"
           [] doc["type"].v = "u" -> "users"
           [] OTHER -> ""
    ELSE IF "waypoint_type" \in DOMAIN doc THEN "waypoints"
    ELSE IF "activities" \in DOMAIN doc THEN "routes"
    ELSE ""

\* the id claimed for the document: document_id, or id when document_id is
\* missing, null or zero; "" when neither gives one
ClaimedId(doc) ==
    LET Given(key) == key \in DOMAIN doc /\ doc[key] \notin {Null, Num(0), Str("")}
        Text(v)    == IF v.t = "num" THEN ToString(v.v) ELSE v.v
    IN  IF Given("document_id") THEN Text(doc["document_id"])
        ELSE IF Given("id") THEN Text(doc["id"])
        ELSE ""

\* the base without the slashes it ends with
BaseText(base) == IF base = C2CBase THEN base ELSE "https://c2c.test"

\* C21: doc_url returns base/entity/id with the entity of the type code when
\* the document has one, else of the fields present (waypoint_type before
\* activities), and the id document_id or, failing that, id; it returns None
\* exactly when the entity or the id cannot be resolved.
C21_DocUrl ==
    UrlCalled =>
        LET entity == ClaimedEntity(probe.arg.v)
            did    == ClaimedId(probe.arg.v)
        IN  /\ probe.pc = "done"
            /\ (entity = "" \/ did = "") <=> probe.out = Null
            /\ (entity # "" /\ did # "") =>
                   probe.out = Str(BaseText(probe.base) \o "/" \o entity \o "/" \o did)

\* a document with no type, with waypoint_type and activities, and with id only
C21_Witness ==
    /\ UrlCalled
    /\ probe.base = "https://c2c.test/"
    /\ DOMAIN probe.arg.v = {"waypoint_type", "activities", "id"}
    /\ probe.arg.v["id"] = Num(7)
    /\ probe.out = Str("https://c2c.test/waypoints/7")

(* ------------------- further claims on point extraction ---------------- *)
\* an object with a string under geom
IsGeomWrapper(g) == g.t = "dict" /\ "geom" \in DOMAIN g.v /\ g.v["geom"].t = "str"

\* C22 (as claimed): an object that is no geom wrapper and whose type is
\* missing or is none of Point, LineString, Polygon and their Multi* variants
\* gives None, also when it has a non-empty coordinates array.
C22_UnknownTypeNoPoint ==
    ( /\ ExtractCalled
      /\ probe.arg.t = "dict"
      /\ ~IsGeomWrapper(probe.arg)
      /\ get(probe.arg.v, "type", Null) \notin {Str(type) : type \in GeometryTypes} )
        => (probe.pc = "done" /\ probe.out = NoPoint)

\* C23 (as claimed): one call decodes a geom string at most once: when the
\* decoded value is itself an object with a geom string, that string is not
\* decoded, so it gives no point.
C23_DecodesOnce ==
    ExtractCalled =>
        /\ geom_decodes(probe.arg) <= 1
        /\ ( /\ IsGeomWrapper(probe.arg)
             /\ probe.arg.v["geom"].v \in JsonTexts
             /\ IsGeomWrapper(json_loads(probe.arg.v["geom"].v)) )
               => (probe.pc = "done" /\ probe.out = NoPoint)

(* ---------------------- claims on the requests of near ------------------ *)
\* the wire parameters of the route filter of call c: those of the filter
\* object, the mapping itself, or none
FilterWire(c) ==
    LET rp == args[c].route_params
    IN  IF rp.t = "filter" THEN to_query_params(rp.v).params
        ELSE IF rp.t = "dict" THEN rp.v
        ELSE EmptyMap

\* C24: every route request of near carries the wire parameters of the route
\* filter merged with the computed padded box: bbox is the computed box, also
\* when the filter sets a bbox, every other parameter of the filter but limit
\* and offset is sent as it is on every page, and nothing else is sent.
C24_FilterMergedWithBox ==
    \A c \in CallIds : IsNear(c) =>
        \A i \in 1..Len(requests[c]) :
            LET sent == requests[c][i].params
                wire == FilterWire(c)
            IN  /\ "bbox" \in DOMAIN sent
                /\ sent["bbox"] = Str(BoxText(bbox[c]))
                /\ bbox[c] = ClaimedBox(c)
                /\ \A k \in (DOMAIN wire) \ {"bbox", "limit", "offset"} :
                      k \in DOMAIN sent /\ sent[k] = wire[k]
                /\ DOMAIN sent = (DOMAIN wire) \cup {"bbox", "limit", "offset"}

\* two requests went out for a route filter with act, an extra and a bbox of
\* its own, both with the computed box and not the filter's
C24_Witness ==
    \E c \in CallIds :
        /\ IsNear(c) /\ Len(requests[c]) = 2
        /\ args[c].route_params.t = "filter"
        /\ FilterWire(c)["bbox"] = Str("0,1,2,3")
        /\ \A i \in 1..2 :
              /\ requests[c][i].params["bbox"] # Str("0,1,2,3")
              /\ requests[c][i].params["act"] = Str("a,b")
              /\ requests[c][i].params["zz"] = Str("v")

(* ------------------------ claims on concurrent calls ------------------- *)
\* the loop of _paginate run alone against the exact server from offset on:
\* how it ends, the documents it holds and the offsets it asked for
RECURSIVE solo_loop(_, _, _, _, _)
solo_loop(a, held, from, count, asked) ==
    LET step == paginate_page(held, from, count, a.page_size, a.max_items,
                              Ok(Listing(Slice(from, a.page_size))))
    IN  IF step.ctl = "loop"
        THEN solo_loop(a, step.items, step.offset, step.seen, Append(asked, from))
        ELSE [ctl |-> step.ctl, items |-> step.items, asked |-> Append(asked, from)]

\* the call with arguments a run alone: how it ends, its result, its offsets
solo_end(a, run) ==
    IF run.ctl = "raise" THEN [pc |-> "raised", result |-> <<>>, asked |-> run.asked]
    ELSE IF a.op = "fetch_all" THEN [pc |-> "done", result |-> run.items, asked |-> run.asked]
    ELSE IF near_join(run.items, a.waypoints, a.max_distance_m).raised
    THEN [pc |-> "raised", result |-> <<>>, asked |-> run.asked]
    ELSE [pc |-> "done", asked |-> run.asked,
          result |-> near_join(run.items, a.waypoints, a.max_distance_m).matches]

solo_from(a, start) ==
    IF start.ctl = "fetch" THEN solo_end(a, solo_loop(a, <<>>, start.offset, 0, <<>>))
    ELSE [pc |-> IF start.ctl = "raise" THEN "raised" ELSE "done", result |-> <<>>,
          asked |-> <<>>]

Solo(a) ==
    IF a.op = "fetch_all"
    THEN solo_from(a, [ctl    |-> IF paginate_offset(a.params).raised THEN "raise" ELSE "fetch",
                       offset |-> paginate_offset(a.params).offset])
    ELSE solo_from(a, near_prologue(a.waypoints, a.max_distance_m, a.route_params))

\* the offsets call c asked for so far
Asked(c) == [i \in 1..Len(requests[c]) |-> requests[c][i].params["offset"].v]

IsPrefix(s, t) == Len(s) <= Len(t) /\ s = SubSeq(t, 1, Len(s))

\* C25: two calls that run at once, their requests and responses interleaved
\* in any order, each ask for the offsets and return the result they have
\* when run alone, also through one C2CSearch.
C25_CallsIndependent ==
    \A c \in CallIds :
        /\ IsPrefix(Asked(c), Solo(args[c]).asked)
        /\ pc[c] \in {"done", "raised"} =>
              /\ pc[c] = Solo(args[c]).pc
              /\ result[c] = Solo(args[c]).result
              /\ Asked(c) = Solo(args[c]).asked

\* both calls are under way at once: each received its first page and waits
\* for its second, a fetch_all from offset 0 and a near from offset 1
C25_Witness ==
    /\ \A c \in CallIds : pc[c] = "wait" /\ Len(responses[c]) = 1 /\ Len(items[c]) >= 1
    /\ IsFetch(1) /\ IsNear(2)
    /\ Asked(1)[1] = 0 /\ Asked(2)[1] = 1
    /\ Asked(1) # Asked(2)

(* ------------------------ claims on the extent of near ----------------- *)
\* the else branch of the first loop of routes_near_waypoints adds the corners
\* of the bbox of wp: doc_point_xy gave None and wp has a 4-element bbox
CornerBranch(wp) ==
    /\ wp.t = "dict"
    /\ doc_point_xy(wp).k = "none"
    /\ DocField(wp, "bbox").t = "list"
    /\ Len(DocField(wp, "bbox").v) = 4

\* the x (k = "x") or y (k = "y") coordinates of the waypoints, one for each
\* waypoint: of its geometry, else the centre of its bbox of four numbers
OnePointEach(wps, k) ==
    UNION { IF GeometryPoint(wps[j])
            THEN {IF k = "x"
                  THEN first_point_xy_from_geometry(DocField(wps[j], "geometry")).x
                  ELSE first_point_xy_from_geometry(DocField(wps[j], "geometry")).y}
            ELSE IF IsBox(DocField(wps[j], "bbox"))
            THEN {IF k = "x" THEN Centroid(DocField(wps[j], "bbox")).x
                             ELSE Centroid(DocField(wps[j], "bbox")).y}
            ELSE {} : j \in 1..Len(wps) }

\* C26: in the first loop of near, a waypoint for which doc_point_xy gives no
\* point has no 4-element bbox, so the branch that adds the corners of the
\* bbox is never taken: a waypoint known by its bbox only adds the centre of
\* the bbox, one coordinate, to the extent.
C26_CornersNeverTaken ==
    \A c \in CallIds : (IsNear(c) /\ pc[c] # "start") =>
        /\ \A j \in 1..Len(args[c].waypoints) : ~CornerBranch(args[c].waypoints[j])
        /\ bbox[c] # <<>> =>
              bbox[c] = <<SetMin(OnePointEach(args[c].waypoints, "x")) - PadOf(args[c].max_distance_m),
                          SetMin(OnePointEach(args[c].waypoints, "y")) - PadOf(args[c].max_distance_m),
                          SetMax(OnePointEach(args[c].waypoints, "x")) + PadOf(args[c].max_distance_m),
                          SetMax(OnePointEach(args[c].waypoints, "y")) + PadOf(args[c].max_distance_m)>>

\* a request went out for the one waypoint W3, known by its bbox (0, 0, 1, 0)
\* only: the box is the padded centre (0.5, 0), not the padded corners
C26_Witness ==
    \E c \in CallIds :
        /\ IsNear(c) /\ Len(requests[c]) >= 1
        /\ args[c].waypoints = <<W3>>
        /\ bbox[c][3] - bbox[c][1] = 2 * PadOf(args[c].max_distance_m)
        /\ bbox[c][1] + PadOf(args[c].max_distance_m) = 1

(* ------------------------ claims on the request count ------------------ *)
\* C27: with max_items >= 1, fetch_all makes at most max_items requests
\* whatever each page holds (nothing, fewer documents than page_size, as many
\* or more), for every page_size >= 0, and has ended once the answer to the
\* max_items-th request is in.
C27_AtMostMaxItemsRequests ==
    \A c \in CallIds :
        (IsFetch(c) /\ args[c].max_items # Null /\ args[c].max_items.v >= 1) =>
            /\ Len(requests[c]) <= args[c].max_items.v
            /\ Len(responses[c]) = args[c].max_items.v => pc[c] \in {"done", "raised"}

\* page_size 0 and max_items 3: three requests, each answered with one
\* document (more than page_size), and the call returned the three
C27_Witness ==
    \E c \in CallIds :
        /\ IsFetch(c) /\ args[c].page_size = 0 /\ args[c].max_items = Num(3)
        /\ pc[c] = "done" /\ Len(result[c]) = 3
        /\ Len(requests[c]) = 3 /\ Len(responses[c]) = 3
        /\ \A i \in 1..3 : Len(PageDocs(responses[c][i])) = 1

====
